---------------------------- MODULE Spec2Model ----------------------------
(***************************************************************************)
(* Model of the Bluetooth device/session manager of RPiPySystem:           *)
(*   bluetooth_service/models/bluetooth_connection.py  (BluetoothConnection)*)
(*   bluetooth_service/utils/bluetooth_manager.py      (BluetoothManager)   *)
(*                                                                         *)
(* Three specifications share the module:                                  *)
(*   SessionSpec / FairSessionSpec : one BluetoothConnection, its listener *)
(*       thread, one caller thread, the peer and the wall clock            *)
(*   PairSpec : BluetoothManager.pair and the bluetoothctl PIN exchange    *)
(*   MgrSpec  : name resolution, connect, disconnect and the session table *)
(***************************************************************************)
EXTENDS Integers, Sequences, FiniteSets, TLC

(***************************************************************************)
(* Bounds of the model.                                                    *)
(***************************************************************************)
MaxOps == 2
MaxTime == 3
MaxTimeout == 2
MaxUnsolicited == 1

(***************************************************************************)
(* Optional values: None, or Some(x).                                      *)
(***************************************************************************)
None == <<>>
Some(x) == <<x>>
IsNone(o) == o = <<>>
Val(o) == o[1]

(***************************************************************************)
(* Bytes are sequences of integers 0..255, text a sequence of code points. *)
(***************************************************************************)
CR == 13
LF == 10

RECURSIVE RStripCRLF(_)
\* bytes.rstrip(b'\r\n') / str.rstrip('\r\n'): drop every trailing CR or LF.
RStripCRLF(s) ==
    IF Len(s) > 0 /\ s[Len(s)] \in {CR, LF}
    THEN RStripCRLF(SubSeq(s, 1, Len(s) - 1))
    ELSE s

normalize_bytes(data) == RStripCRLF(data)
normalize_text(text) == RStripCRLF(text)

RECURSIVE Encode(_)
\* str.encode('utf-8') for code points below 2048.
Encode(text) ==
    IF text = <<>> THEN <<>>
    ELSE LET c == Head(text)
         IN  (IF c < 128 THEN <<c>>
              ELSE <<192 + (c \div 64), 128 + (c % 64)>>) \o Encode(Tail(text))

RECURSIVE Decode(_)
\* bytes.decode('utf-8', errors='ignore') for one- and two-byte sequences:
\* a byte that starts no valid sequence is dropped.
Decode(data) ==
    IF data = <<>> THEN <<>>
    ELSE LET b == Head(data)
         IN  IF b < 128 THEN <<b>> \o Decode(Tail(data))
             ELSE IF b >= 194 /\ b <= 223 /\ Len(data) >= 2
                     /\ data[2] >= 128 /\ data[2] <= 191
                  THEN <<(b - 192) * 64 + (data[2] - 128)>>
                           \o Decode(SubSeq(data, 3, Len(data)))
                  ELSE Decode(Tail(data))

RECURSIVE JoinNL(_)
\* '\n'.join(parts)
JoinNL(parts) ==
    IF parts = <<>> THEN <<>>
    ELSE IF Len(parts) = 1 THEN parts[1]
    ELSE parts[1] \o <<LF>> \o JoinNL(Tail(parts))

RECURSIVE Concat(_)
\* b''.join(parts)
Concat(parts) ==
    IF parts = <<>> THEN <<>> ELSE Head(parts) \o Concat(Tail(parts))

\* Python truthiness of an Optional[str] / Optional[bytes].
Truthy(o) == ~IsNone(o) /\ Len(Val(o)) > 0

\* Python's `a or b` on an optional sequence / optional timestamp.
OrElse(o, d) == IF Truthy(o) THEN o ELSE d

(***************************************************************************)
(* Payloads of the model.                                                  *)
(***************************************************************************)
TxtAT == <<65, 84>>                      \* "AT"
BytATCRLF == <<65, 84, CR, LF>>          \* b"AT\r\n"
BytOK == <<79, 75, CR, LF>>              \* b"OK\r\n"
TxtOK == <<79, 75>>                      \* "OK"
BytLINE1 == <<76, 73, 78, 69, 49, CR, LF>>   \* b"LINE1\r\n"
BytLINE2 == <<76, 73, 78, 69, 50, CR, LF>>   \* b"LINE2\r\n"
TxtLINE1 == <<76, 73, 78, 69, 49>>
TxtLINE2 == <<76, 73, 78, 69, 50>>
BytUnsol == <<69, 255>>                  \* b"E\xff": one undecodable byte

\* BluetoothMessageRecord with the dataclass defaults.
MessageRecord(msg, byt) ==
    [send_message |-> msg, send_bytes |-> byt, send_at |-> None,
     received_message |-> None, received_bytes |-> None, received_at |-> None]

\* The records a caller hands to send_msg / send_receive_msg.
SendRecords ==
    { MessageRecord(Some(TxtAT), None),
      MessageRecord(None, Some(BytATCRLF)) }

\* The records a caller hands to send_msg: those, one with both fields set
\* and one with neither.
SendMsgRecords ==
    SendRecords \cup { MessageRecord(Some(TxtAT), Some(BytOK)),
                       MessageRecord(None, None) }

\* Which of send_message / send_bytes a record carries.
RecordKind(r) ==
    IF ~IsNone(r.send_message) /\ ~IsNone(r.send_bytes) THEN "both"
    ELSE IF ~IsNone(r.send_message) THEN "text"
    ELSE IF ~IsNone(r.send_bytes) THEN "bytes"
    ELSE "neither"

\* "failing": the link breaks, so that select/recv and send raise OSError.
PeerModes == {"silent", "ok", "lines", "chatty", "failing"}

VARIABLES
    \* ---- BluetoothConnection ----
    sock,           \* "open" | "closed" (self.sock is None)
    stop_event,     \* self._stop_event
    last_sent,      \* self._last_sent: deque(maxlen=10) of normalized payloads
    incoming,       \* self._incoming
    lock,           \* holder of self._incoming_lock: "free" | "caller"
    notified,       \* the waiting caller has been notified through _incoming_cv
    is_connected,   \* self.info.is_connected
    last_used_at,   \* self.info.last_used_at
    \* ---- listener thread ----
    lpc,            \* "read" | "append" | "exit" | "dead"
    ldata,          \* the chunk the listener holds
    \* ---- caller thread ----
    pc, op, rec, payload, timeout, start_index, end_time, collected, ret, opsDone,
    \* ---- environment ----
    wire,           \* chunks the peer has sent and the listener has not read
    peerMode, unsolicited, now,
    \* ---- history of the current call (not read by the program) ----
    hist,
    \* ---- BluetoothManager ----
    devices_cache,  \* self._devices_cache: name/alias -> address
    connections,    \* self._connections: address -> index into sessions (0: none)
    sessions,       \* the BluetoothConnection objects connect() has created
    bluez,          \* the Bluetooth daemon: reachable or not, and its devices
    mlast, mprev,   \* the last two manager calls (not read by the program)
    mcalls,
    \* ---- BluetoothManager.pair ----
    ppc, pargs, paddr, child, shlog, pexc, pout, trustReq, pcalls,
    \* ---- one inbox shared by the listener and two caller threads ----
    ibox,           \* self._incoming, each entry [n: arrival number, echo]
    iarrived,       \* number of entries the listener has appended
    ipc,            \* per caller: "idle" | "send" | "loop" | "wait" | "merge"
    istart,         \* per caller: start_index
    icollected,     \* per caller: collected
    ihanded,        \* <<caller, n>> in the order entries were handed to callers
    ilast,          \* the last receive_msg: the inbox it found, what it returned
    iops,           \* calls started
    iwin,           \* per caller: the arrivals at its send and at its last loop test
                    \* before the deadline (not read by the program)
    \* ---- one BluetoothManager.connect call in steps ----
    cpc,            \* "idle" | "link" | "name" | "service" | "socket" | "register"
    caddr,          \* addr
    cname,          \* name
    ctries,         \* find_service calls made
    cport,          \* port
    csock,          \* "none" | "created" | "connected" : the RFCOMM socket
    clog,           \* what the call did, in order
    cout,           \* outcome of the last connect
    ccalls,         \* connect calls started
    \* ---- the manager's queries: resolution, probes, scan, device info ----
    qlast,          \* the last query: what was asked, what the daemon and the
                    \* cache were, what came back
    qprev,          \* the query before it
    qcalls,         \* queries made
    \* ---- a session that only sends ----
    esent,          \* the payloads send_msg has transmitted, in order
    \* ---- two threads calling the manager at once ----
    tpc,            \* per thread: where it is in its call
    tloc,           \* per thread: the locals of its call
    tout,           \* per thread: outcome of its last call
    tregd,          \* the sessions that have been put in the table
    tops            \* calls started

sessionVars == <<sock, stop_event, last_sent, incoming, lock, notified, is_connected,
                 last_used_at, lpc, ldata, pc, op, rec, payload, timeout, start_index,
                 end_time, collected, ret, opsDone, wire, peerMode, unsolicited, now,
                 hist>>

mgrVars == <<devices_cache, connections, sessions, bluez, mlast, mprev, mcalls>>

pairVars == <<ppc, pargs, paddr, child, shlog, pexc, pout, trustReq, pcalls>>

inboxVars == <<ibox, iarrived, ipc, istart, icollected, ihanded, ilast, iops, iwin>>

connVars == <<cpc, caddr, cname, ctries, cport, csock, clog, cout, ccalls>>

queryVars == <<qlast, qprev, qcalls>>

echoVars == <<esent>>

tableVars == <<tpc, tloc, tout, tregd, tops>>

moreVars == <<echoVars, tableVars>>

restVars == <<inboxVars, connVars, queryVars, moreVars>>

vars == <<sessionVars, mgrVars, pairVars, restVars>>

\* The callers of the shared inbox.
Callers == {1, 2}

NoReceive == [caller |-> 0, before |-> <<>>, value |-> None]
NoWindow == [sent |-> None, alive |-> 0]

\* The inbox of a new session, no caller in a call.
InitInbox ==
    /\ ibox = <<>>
    /\ iarrived = 0
    /\ ipc = [c \in Callers |-> "idle"]
    /\ istart = [c \in Callers |-> 0]
    /\ icollected = [c \in Callers |-> <<>>]
    /\ ihanded = <<>>
    /\ ilast = NoReceive
    /\ iops = 0
    /\ iwin = [c \in Callers |-> NoWindow]

NoConnect == [status |-> "none", session |-> None]

\* No connect call in flight.
InitConn ==
    /\ cpc = "idle"
    /\ caddr = None
    /\ cname = None
    /\ ctries = 0
    /\ cport = None
    /\ csock = "none"
    /\ clog = <<>>
    /\ cout = NoConnect
    /\ ccalls = 0

NoQuery == [op |-> "none"]

\* No query made.
InitQuery ==
    /\ qlast = NoQuery
    /\ qprev = NoQuery
    /\ qcalls = 0

Threads == {1, 2}

NoLocals == [addr |-> None, conn |-> None, todo |-> {}, used |-> 0, seen |-> {}]
\* No send made, no thread in a call.
InitMore ==
    /\ esent = <<>>
    /\ tpc = [t \in Threads |-> "idle"]
    /\ tloc = [t \in Threads |-> NoLocals]
    /\ tout = [t \in Threads |-> [op |-> "none", status |-> "none"]]
    /\ tregd = {}
    /\ tops = 0

InitRest == InitInbox /\ InitConn /\ InitQuery /\ InitMore

(***************************************************************************)
(* Session: construction (BluetoothConnection.__init__).                   *)
(***************************************************************************)
NoRecord == MessageRecord(None, None)
NoHist == [arrived |-> <<>>, removed |-> <<>>, sent |-> FALSE, given |-> "none"]
NoRet == [op |-> "none", status |-> "none", value |-> None]

InitSession ==
    /\ sock = "open"
    /\ stop_event = FALSE
    /\ last_sent = <<>>
    /\ incoming = <<>>
    /\ lock = "free"
    /\ notified = FALSE
    /\ is_connected = TRUE
    /\ last_used_at = None
    /\ lpc = "read"
    /\ ldata = None
    /\ pc = "idle"
    /\ op = "none"
    /\ rec = NoRecord
    /\ payload = None
    /\ timeout = 0
    /\ start_index = 0
    /\ end_time = 0
    /\ collected = <<>>
    /\ ret = NoRet
    /\ opsDone = 0
    /\ wire = <<>>
    /\ peerMode \in PeerModes
    /\ unsolicited = 0
    /\ now = 0
    /\ hist = NoHist

(***************************************************************************)
(* The peer.  A chunk on the wire is what one recv() of the listener       *)
(* returns; `origin` records why the peer sent it and is not read by the   *)
(* program.                                                                *)
(***************************************************************************)
Chunk(data, origin) == [data |-> data, origin |-> origin]

\* The reflections of payload p: unchanged, or differing in trailing CR/LF only.
EchoVariants(p) == { p, normalize_bytes(p) \o <<CR, LF>> }

\* What the peer answers to one transmitted payload, by its mode.
PeerReply ==
    CASE peerMode \in {"silent", "chatty", "failing"} -> <<>>
      [] peerMode = "ok"     -> <<Chunk(BytOK, "reply")>>
      [] peerMode = "lines"  -> <<Chunk(BytLINE1, "reply"), Chunk(BytLINE2, "reply")>>

\* The peer's traffic after it got payload p: an optional reflection of p
\* first, then its reply.
PeerResponses(p) ==
    { PeerReply } \cup { <<Chunk(e, "echo")>> \o PeerReply : e \in EchoVariants(p) }

\* The peer transmits on its own.
PeerUnsolicited ==
    /\ peerMode = "chatty"
    /\ sock = "open"
    /\ unsolicited < MaxUnsolicited
    /\ unsolicited' = unsolicited + 1
    /\ wire' = Append(wire, Chunk(BytUnsol, "unsol"))
    /\ UNCHANGED <<mgrVars, pairVars, restVars>>
    /\ UNCHANGED <<sock, stop_event, last_sent, incoming, lock, notified, is_connected,
                   last_used_at, lpc, ldata, pc, op, rec, payload, timeout, start_index,
                   end_time, collected, ret, opsDone, peerMode, now, hist>>

\* Time passes.  The program's control flow reads the clock only between fixing
\* the deadline of send_receive_msg and leaving its wait loop, so the model lets
\* the clock advance there, up to MaxTime.
Timed == pc \in {"sr_acquire", "sr_loop", "sr_wait", "sr_drain"}

Tick ==
    /\ Timed
    /\ now < MaxTime
    /\ now' = now + 1
    /\ UNCHANGED <<mgrVars, pairVars, restVars>>
    /\ UNCHANGED <<sock, stop_event, last_sent, incoming, lock, notified, is_connected,
                   last_used_at, lpc, ldata, pc, op, rec, payload, timeout, start_index,
                   end_time, collected, ret, opsDone, wire, peerMode, unsolicited, hist>>

(***************************************************************************)
(* The listener thread: BluetoothConnection._listen_loop.                  *)
(***************************************************************************)
\* The inbound record of lines 100-104.
InboundRecord(chunk, t) ==
    [send_message |-> None, send_bytes |-> None, send_at |-> None,
     received_message |-> Some(Decode(chunk.data)),
     received_bytes |-> Some(chunk.data),
     received_at |-> Some(t),
     origin |-> chunk.origin]

\* A filter that drops every chunk once anything has been sent.
InLastSentAny(norm) == last_sent # <<>>

\* line 96: norm in self._last_sent
InLastSent(norm) == \E i \in 1..Len(last_sent) : last_sent[i] = norm

\* A loop that goes on whatever the stop flag and the socket are.
LoopNeverStops(stop, s) == FALSE

\* line 86: the stop flag is set; or lines 72-73 and 89-90: the socket is gone,
\* _read_socket_once raises BluetoothError and the loop breaks.
LoopStops(stop, s) == stop \/ s = "closed"

\* lines 86-104 and _read_socket_once: the loop test, one select/recv, the echo
\* filter and the inbound record.
ListenRead ==
    /\ lpc = "read"
    /\ IF LoopStops(stop_event, sock)
       THEN \* the loop test fails, or BluetoothError('Socket is closed') -> break
            /\ lpc' = "exit"
            /\ UNCHANGED <<wire, ldata, last_used_at>>
       ELSE /\ wire # <<>>
            /\ wire' = Tail(wire)
            /\ last_used_at' = Some(now)
            /\ IF InLastSent(normalize_bytes(Head(wire).data))
               THEN \* ignore echo
                    /\ lpc' = "read"
                    /\ ldata' = None
               ELSE /\ lpc' = "append"
                    /\ ldata' = Some(InboundRecord(Head(wire), now))
    /\ UNCHANGED <<mgrVars, pairVars, restVars>>
    /\ UNCHANGED <<sock, stop_event, last_sent, incoming, lock, notified, is_connected,
                   pc, op, rec, payload, timeout, start_index, end_time, collected, ret,
                   opsDone, peerMode, unsolicited, now, hist>>

\* lines 74-76 and 87-90: select or recv raises OSError on a broken link.  The
\* loop catches BluetoothError only, so the exception ends the thread; nothing
\* else is touched.
ListenFail ==
    /\ lpc = "read"
    /\ ~stop_event /\ sock = "open"
    /\ peerMode = "failing"
    /\ lpc' = "dead"
    /\ UNCHANGED <<mgrVars, pairVars, restVars>>
    /\ UNCHANGED <<sock, stop_event, last_sent, incoming, lock, notified, is_connected,
                   last_used_at, ldata, pc, op, rec, payload, timeout, start_index,
                   end_time, collected, ret, opsDone, wire, peerMode, unsolicited, now,
                   hist>>

\* lines 106-108: append under the lock and notify_all.
ListenAppend ==
    /\ lpc = "append"
    /\ lock = "free"
    /\ incoming' = Append(incoming, Val(ldata))
    /\ notified' = (notified \/ pc = "sr_wait")
    /\ hist' = [hist EXCEPT !.arrived = Append(@, [e |-> Val(ldata), sent |-> hist.sent])]
    /\ ldata' = None
    /\ lpc' = "read"
    /\ UNCHANGED <<mgrVars, pairVars, restVars>>
    /\ UNCHANGED <<sock, stop_event, last_sent, lock, is_connected, last_used_at, pc, op,
                   rec, payload, timeout, start_index, end_time, collected, ret, opsDone,
                   wire, peerMode, unsolicited, now>>

(***************************************************************************)
(* The caller thread: send_msg, receive_msg, send_receive_msg, disconnect. *)
(***************************************************************************)
EchoCap == 10

\* A buffer that, when full, drops what is appended.
DequeDropNewest(d, x) ==
    IF Len(d) >= EchoCap THEN d ELSE Append(d, x)

\* deque(maxlen=EchoCap).append(x): the oldest entry is evicted when full.
DequeAppend(d, x) ==
    IF Len(d) >= EchoCap THEN Append(Tail(d), x) ELSE Append(d, x)

\* A comparison that finds no echo.
is_echo_never(sent, received) == FALSE

\* BluetoothConnection._is_echo
is_echo(sent, received) ==
    \/ /\ Truthy(sent.send_bytes) /\ Truthy(received.received_bytes)
       /\ normalize_bytes(Val(sent.send_bytes)) = normalize_bytes(Val(received.received_bytes))
    \/ /\ Truthy(sent.send_message) /\ Truthy(received.received_message)
       /\ normalize_text(Val(sent.send_message)) = normalize_text(Val(received.received_message))

Return(o, status, value) == [op |-> o, status |-> status, value |-> value]

\* A caller invokes send_msg(r).
CallSend ==
    /\ pc = "idle" /\ opsDone < MaxOps
    /\ \E r \in SendMsgRecords : /\ rec' = r
                                 /\ hist' = [NoHist EXCEPT !.given = RecordKind(r)]
    /\ op' = "send_msg"
    /\ pc' = "send_check"
    /\ payload' = None
    /\ timeout' = 0
    /\ start_index' = 0
    /\ end_time' = 0
    /\ ret' = NoRet
    /\ UNCHANGED <<mgrVars, pairVars, restVars>>
    /\ UNCHANGED <<sock, stop_event, last_sent, incoming, lock, notified, is_connected,
                   last_used_at, lpc, ldata, collected, opsDone, wire, peerMode,
                   unsolicited, now>>

\* receive_msg (lines 165-172): pop the oldest inbox entry under the lock.
CallReceive ==
    /\ pc = "idle" /\ opsDone < MaxOps
    /\ lock = "free"
    /\ IF incoming = <<>>
       THEN /\ ret' = Return("receive_msg", "ok", None)
            /\ UNCHANGED incoming
       ELSE /\ ret' = Return("receive_msg", "ok", Some(Head(incoming)))
            /\ incoming' = Tail(incoming)
    /\ op' = "receive_msg"
    /\ opsDone' = opsDone + 1
    /\ timeout' = 0
    /\ start_index' = 0
    /\ end_time' = 0
    /\ hist' = NoHist
    /\ UNCHANGED <<mgrVars, pairVars, restVars>>
    /\ UNCHANGED <<sock, stop_event, last_sent, lock, notified, is_connected,
                   last_used_at, lpc, ldata, pc, rec, payload, collected, wire, peerMode,
                   unsolicited, now>>

\* A caller invokes send_receive_msg(r, t); lines 179-180 take the watermark.
CallSendReceive ==
    /\ pc = "idle" /\ opsDone < MaxOps
    /\ lock = "free"
    /\ \E r \in SendRecords : /\ rec' = r
                              /\ hist' = [NoHist EXCEPT !.given = RecordKind(r)]
    /\ \E t \in 1..MaxTimeout : /\ now + t <= MaxTime
                                /\ timeout' = t
    /\ start_index' = Len(incoming)
    /\ end_time' = 0
    /\ op' = "send_receive_msg"
    /\ pc' = "send_check"
    /\ payload' = None
    /\ collected' = <<>>
    /\ ret' = NoRet
    /\ UNCHANGED <<mgrVars, pairVars, restVars>>
    /\ UNCHANGED <<sock, stop_event, last_sent, incoming, lock, notified, is_connected,
                   last_used_at, lpc, ldata, opsDone, wire, peerMode, unsolicited, now>>

\* disconnect (lines 237-248).
CallDisconnect ==
    /\ pc = "idle" /\ opsDone < MaxOps
    /\ stop_event' = TRUE
    /\ sock' = "closed"
    /\ is_connected' = FALSE
    /\ last_used_at' = Some(now)
    /\ op' = "disconnect"
    /\ ret' = Return("disconnect", "ok", None)
    /\ opsDone' = opsDone + 1
    /\ timeout' = 0
    /\ start_index' = 0
    /\ end_time' = 0
    /\ hist' = NoHist
    /\ UNCHANGED <<mgrVars, pairVars, restVars>>
    /\ UNCHANGED <<last_sent, incoming, lock, notified, lpc, ldata, pc, rec, payload,
                   collected, wire, peerMode, unsolicited, now>>

\* disconnect lines 241-246 on a broken link: sock.close() raises OSError.  The
\* finally clause releases the socket and the exception leaves disconnect, so
\* lines 247-248 are not reached.
CallDisconnectFails ==
    /\ pc = "idle" /\ opsDone < MaxOps
    /\ sock = "open"
    /\ peerMode = "failing"
    /\ stop_event' = TRUE
    /\ sock' = "closed"
    /\ op' = "disconnect"
    /\ ret' = Return("disconnect", "OSError", None)
    /\ opsDone' = opsDone + 1
    /\ timeout' = 0
    /\ start_index' = 0
    /\ end_time' = 0
    /\ hist' = NoHist
    /\ UNCHANGED <<mgrVars, pairVars, restVars>>
    /\ UNCHANGED <<last_sent, incoming, lock, notified, is_connected, last_used_at, lpc,
                   ldata, pc, rec, payload, collected, wire, peerMode, unsolicited, now>>

\* A socket check that never finds the socket closed.
SocketNeverClosed(s) == FALSE

\* line 143: not self.sock
SocketClosed(s) == s = "closed"

\* send_msg lines 143-156: the socket check, the payload, send_at.
SendCheck ==
    /\ pc = "send_check"
    /\ IF SocketClosed(sock)
       THEN /\ ret' = Return(op, "BluetoothError", None)
            /\ pc' = "idle"
            /\ opsDone' = opsDone + 1
            /\ rec' = NoRecord
            /\ UNCHANGED payload
       ELSE IF ~IsNone(rec.send_message)
       THEN /\ payload' = Some(Encode(Val(rec.send_message)))
            /\ rec' = [rec EXCEPT !.send_bytes = Some(Encode(Val(rec.send_message))),
                                  !.send_at = Some(now)]
            /\ pc' = "send_sock"
            /\ UNCHANGED <<ret, opsDone>>
       ELSE IF ~IsNone(rec.send_bytes)
       THEN /\ payload' = rec.send_bytes
            /\ rec' = [rec EXCEPT !.send_at = Some(now)]
            /\ pc' = "send_sock"
            /\ UNCHANGED <<ret, opsDone>>
       ELSE /\ ret' = Return(op, "ValueError", None)
            /\ pc' = "idle"
            /\ opsDone' = opsDone + 1
            /\ rec' = NoRecord
            /\ UNCHANGED payload
    /\ UNCHANGED <<mgrVars, pairVars, restVars>>
    /\ UNCHANGED <<sock, stop_event, last_sent, incoming, lock, notified, is_connected,
                   last_used_at, lpc, ldata, op, timeout, start_index, end_time,
                   collected, wire, peerMode, unsolicited, now, hist>>

\* send_msg lines 159-160: the payload goes out; the peer's traffic follows it.
SendSockTo(responses) ==
    /\ pc = "send_sock"
    /\ \E resp \in responses : wire' = wire \o resp
    /\ last_used_at' = Some(now)
    /\ hist' = [hist EXCEPT !.sent = TRUE]
    /\ pc' = "send_remember"
    /\ UNCHANGED <<mgrVars, pairVars, restVars>>
    /\ UNCHANGED <<sock, stop_event, last_sent, incoming, lock, notified, is_connected,
                   lpc, ldata, op, rec, payload, timeout, start_index, end_time,
                   collected, ret, opsDone, peerMode, unsolicited, now>>

SendSock == SendSockTo(PeerResponses(Val(payload)))

\* send_msg line 159 on a broken link: sock.send raises OSError, which leaves
\* send_msg and send_receive_msg as it is.
SendSockFails ==
    /\ pc = "send_sock"
    /\ peerMode = "failing"
    /\ ret' = Return(op, "OSError", None)
    /\ pc' = "idle"
    /\ opsDone' = opsDone + 1
    /\ rec' = NoRecord
    /\ payload' = None
    /\ UNCHANGED <<mgrVars, pairVars, restVars>>
    /\ UNCHANGED <<sock, stop_event, last_sent, incoming, lock, notified, is_connected,
                   last_used_at, lpc, ldata, op, timeout, start_index, end_time,
                   collected, wire, peerMode, unsolicited, now, hist>>

\* send_msg line 163: remember the normalized payload for the echo filter.
SendRemember ==
    /\ pc = "send_remember"
    /\ last_sent' = DequeAppend(last_sent, normalize_bytes(Val(payload)))
    /\ IF op = "send_msg"
       THEN /\ ret' = Return("send_msg", "ok", Some(rec))
            /\ pc' = "idle"
            /\ opsDone' = opsDone + 1
            /\ rec' = NoRecord
            /\ payload' = None
       ELSE /\ pc' = "sr_end"
            /\ UNCHANGED <<ret, opsDone, rec, payload>>
    /\ UNCHANGED <<mgrVars, pairVars, restVars>>
    /\ UNCHANGED <<sock, stop_event, incoming, lock, notified, is_connected,
                   last_used_at, lpc, ldata, op, timeout, start_index,
                   end_time, collected, wire, peerMode, unsolicited, now, hist>>

\* send_receive_msg lines 186-187: the deadline.
SRDeadline ==
    /\ pc = "sr_end"
    /\ end_time' = now + timeout
    /\ collected' = <<>>
    /\ pc' = "sr_acquire"
    /\ UNCHANGED <<mgrVars, pairVars, restVars>>
    /\ UNCHANGED <<sock, stop_event, last_sent, incoming, lock, notified, is_connected,
                   last_used_at, lpc, ldata, op, rec, payload, timeout, start_index, ret,
                   opsDone, wire, peerMode, unsolicited, now, hist>>

\* line 189: with self._incoming_cv
SRAcquire ==
    /\ pc = "sr_acquire"
    /\ lock = "free"
    /\ lock' = "caller"
    /\ pc' = "sr_loop"
    /\ UNCHANGED <<mgrVars, pairVars, restVars>>
    /\ UNCHANGED <<sock, stop_event, last_sent, incoming, notified, is_connected,
                   last_used_at, lpc, ldata, op, rec, payload, timeout, start_index,
                   end_time, collected, ret, opsDone, wire, peerMode, unsolicited, now,
                   hist>>

\* lines 190-197: the loop test; wait on the condition variable when the inbox
\* holds nothing beyond the watermark.
SRLoop ==
    /\ pc = "sr_loop"
    /\ IF now >= end_time
       THEN /\ pc' = "sr_merge"
            /\ lock' = "free"
            /\ UNCHANGED notified
       ELSE IF Len(incoming) <= start_index
       THEN /\ pc' = "sr_wait"
            /\ lock' = "free"
            /\ notified' = FALSE
       ELSE /\ pc' = "sr_drain"
            /\ UNCHANGED <<lock, notified>>
    /\ UNCHANGED <<mgrVars, pairVars, restVars>>
    /\ UNCHANGED <<sock, stop_event, last_sent, incoming, is_connected, last_used_at,
                   lpc, ldata, op, rec, payload, timeout, start_index, end_time,
                   collected, ret, opsDone, wire, peerMode, unsolicited, now, hist>>

\* line 197: wait(timeout=remaining) returns, notified or timed out, with the lock.
SRWake ==
    /\ pc = "sr_wait"
    /\ notified \/ now >= end_time
    /\ lock = "free"
    /\ lock' = "caller"
    /\ notified' = FALSE
    /\ pc' = "sr_drain"
    /\ UNCHANGED <<mgrVars, pairVars, restVars>>
    /\ UNCHANGED <<sock, stop_event, last_sent, incoming, is_connected, last_used_at,
                   lpc, ldata, op, rec, payload, timeout, start_index, end_time,
                   collected, ret, opsDone, wire, peerMode, unsolicited, now, hist>>

\* The entries beyond the watermark, in order.
Beyond(q, k) == IF Len(q) > k THEN SubSeq(q, k + 1, Len(q)) ELSE <<>>

\* A drain that keeps the first new message only.
DrainKeepFirst(sent, popped) ==
    LET kept == SelectSeq(popped, LAMBDA c : ~is_echo(sent, c))
    IN  IF kept = <<>> THEN <<>> ELSE <<kept[1]>>

\* lines 200-207: what the drain keeps of the popped entries.
DrainKeep(sent, popped) == SelectSeq(popped, LAMBDA c : ~is_echo(sent, c))

\* A loop that is left at the deadline only.
LeaveAtDeadline(coll, q, k) == FALSE

\* line 211: collected and len(self._incoming) <= start_index
LeaveEarly(coll, q, k) == coll # <<>> /\ Len(q) <= k

\* lines 200-212: pop every entry beyond the watermark, drop the echoes of the
\* record, keep the rest; leave the loop when something has been collected.
SRDrain ==
    /\ pc = "sr_drain"
    /\ LET popped == Beyond(incoming, start_index)
           kept == collected \o DrainKeep(rec, popped)
           left == IF Len(incoming) > start_index
                   THEN SubSeq(incoming, 1, start_index) ELSE incoming
       IN  /\ incoming' = left
           /\ collected' = kept
           /\ hist' = [hist EXCEPT !.removed = @ \o popped]
           /\ IF LeaveEarly(kept, left, start_index)
              THEN /\ pc' = "sr_merge"
                   /\ lock' = "free"
              ELSE /\ pc' = "sr_loop"
                   /\ UNCHANGED lock
    /\ UNCHANGED <<mgrVars, pairVars, restVars>>
    /\ UNCHANGED <<sock, stop_event, last_sent, notified, is_connected, last_used_at,
                   lpc, ldata, op, rec, payload, timeout, start_index, end_time, ret,
                   opsDone, wire, peerMode, unsolicited, now>>

\* A merge that fills the received fields only when something was collected.
MergeKeepsAbsent(r, coll) ==
    IF coll # <<>>
    THEN [r EXCEPT
            !.received_message =
                Some(JoinNL([i \in 1..Len(coll) |-> Val(coll[i].received_message)])),
            !.received_bytes =
                Some(Concat([i \in 1..Len(coll) |-> Val(coll[i].received_bytes)])),
            !.received_at = coll[Len(coll)].received_at]
    ELSE r

\* lines 214-233: the received fields of the returned record.
Merge(r, coll) ==
    IF coll # <<>>
    THEN LET withText == SelectSeq(coll, LAMBDA c : ~IsNone(c.received_message))
             withBytes == SelectSeq(coll, LAMBDA c : ~IsNone(c.received_bytes))
             texts == [i \in 1..Len(withText) |-> Val(withText[i].received_message)]
             bytes == [i \in 1..Len(withBytes) |-> Val(withBytes[i].received_bytes)]
         IN  [r EXCEPT
                !.received_message = IF texts # <<>> THEN Some(JoinNL(texts))
                                     ELSE OrElse(r.received_message, Some(<<>>)),
                !.received_bytes = IF bytes # <<>> THEN Some(Concat(bytes))
                                   ELSE OrElse(r.received_bytes, Some(<<>>)),
                !.received_at = coll[Len(coll)].received_at]
    ELSE [r EXCEPT
                !.received_message = OrElse(r.received_message, Some(<<>>)),
                !.received_bytes = OrElse(r.received_bytes, Some(<<>>)),
                !.received_at = r.received_at]

\* lines 214-235: merge and return.
SRMerge ==
    /\ pc = "sr_merge"
    /\ ret' = Return("send_receive_msg", "ok", Some(Merge(rec, collected)))
    /\ pc' = "idle"
    /\ opsDone' = opsDone + 1
    /\ rec' = NoRecord
    /\ payload' = None
    /\ collected' = <<>>
    /\ UNCHANGED <<mgrVars, pairVars, restVars>>
    /\ UNCHANGED <<sock, stop_event, last_sent, incoming, lock, notified, is_connected,
                   last_used_at, lpc, ldata, op, timeout, start_index, end_time,
                   wire, peerMode, unsolicited, now, hist>>

ListenerStep == ListenRead \/ ListenFail \/ ListenAppend

CallerStep ==
    \/ CallSend \/ CallReceive \/ CallSendReceive \/ CallDisconnect
    \/ CallDisconnectFails
    \/ SendCheck \/ SendSock \/ SendSockFails \/ SendRemember
    \/ SRDeadline \/ SRAcquire \/ SRLoop \/ SRWake \/ SRDrain \/ SRMerge

NextSession == ListenerStep \/ CallerStep \/ PeerUnsolicited \/ Tick

(***************************************************************************)
(* BluetoothManager: strings, the daemon and the hint cache.               *)
(* Names and addresses are sequences of code points.                       *)
(***************************************************************************)
MaxSessions == 2
MaxMgrCalls == 3

COLON == 58

\* str.lower() / str.upper() on ASCII letters.
Lower(s) == [i \in 1..Len(s) |-> IF s[i] \in 65..90 THEN s[i] + 32 ELSE s[i]]
Upper(s) == [i \in 1..Len(s) |-> IF s[i] \in 97..122 THEN s[i] - 32 ELSE s[i]]

IsSpace(c) == c \in {9, 10, 11, 12, 13, 32}

RECURSIVE LStrip(_)
LStrip(s) == IF Len(s) > 0 /\ IsSpace(s[1]) THEN LStrip(Tail(s)) ELSE s

RECURSIVE RStrip(_)
RStrip(s) ==
    IF Len(s) > 0 /\ IsSpace(s[Len(s)]) THEN RStrip(SubSeq(s, 1, Len(s) - 1)) ELSE s

\* str.strip()
Strip(s) == RStrip(LStrip(s))

\* A test that finds no separator.
HasColonNever(device) == FALSE

\* ":" in device
HasColon(s) == \E i \in 1..Len(s) : s[i] = COLON

AddrA == <<65, 58, 49>>                  \* "A:1"
AddrB == <<66, 58, 50>>                  \* "B:2"
Addrs == {AddrA, AddrB}

NameHC == <<72, 67>>                     \* "HC"
NameLamp == <<76, 97>>                   \* "La"

\* The device arguments callers pass: an address in lower case with a trailing
\* blank, an address, a name, the same name in another case, an alias, and a
\* name no device has.
DeviceArgs ==
    { <<97, 58, 49, 32>>, AddrB, NameHC, <<104, 99>>, NameLamp, <<122>> }

\* Those of them the clients of connect and disconnect pass.
SessionArgs == { <<97, 58, 49, 32>>, NameHC, <<104, 99>>, <<122>> }

\* The Device1 properties the resolver reads.
DevProps ==
    { [Name |-> Some(NameHC), Alias |-> Some(NameHC)],
      [Name |-> None, Alias |-> Some(NameLamp)] }

\* The daemon: reachable over D-Bus or not, and the Device1 objects under the
\* adapter, by address.  An unreachable daemon shows no objects.
BluezDown == [up |-> FALSE, devs |-> [a \in Addrs |-> None]]

BluezStates ==
    {BluezDown} \cup
    [up : {TRUE}, devs : [Addrs -> {None} \cup {Some(p) : p \in DevProps}]]

\* dict.get(key)
CacheGet(c, k) == IF k \in DOMAIN c THEN Some(c[k]) ELSE None

\* dict[key] = value
CachePut(c, k, a) == [x \in DOMAIN c \cup {k} |-> IF x = k THEN a ELSE c[x]]

\* lines 73-94: address -> props of every Device1 object under the adapter.
find_device_entries(bz) ==
    { [addr |-> Upper(a), props |-> Val(bz.devs[a])] :
        a \in {x \in Addrs : ~IsNone(bz.devs[x])} }

\* A search that tries the aliases before the names.
resolve_alias_first(device_name, cache, bz) ==
    LET entries == find_device_entries(bz)
        byName == {e \in entries : Truthy(e.props.Name)
                                   /\ Lower(Val(e.props.Name)) = Lower(device_name)}
        byAlias == {e \in entries : Truthy(e.props.Alias)
                                    /\ Lower(Val(e.props.Alias)) = Lower(device_name)}
    IN  IF byAlias # {}
        THEN {[addr |-> Some(e.addr),
               cache |-> CachePut(cache, Val(e.props.Alias), e.addr)] : e \in byAlias}
        ELSE IF byName # {}
        THEN {[addr |-> Some(e.addr),
               cache |-> CachePut(cache, Val(e.props.Name), e.addr)] : e \in byName}
        ELSE {[addr |-> None, cache |-> cache]}

\* lines 125-146: the first entry whose Name matches, else the first whose
\* Alias matches, ignoring case; the hit is cached under the daemon's spelling.
\* The order of the entries is the daemon's, so any match can be the first.
resolve_name_in_bluez(device_name, cache, bz) ==
    LET entries == find_device_entries(bz)
        byName == {e \in entries : Truthy(e.props.Name)
                                   /\ Lower(Val(e.props.Name)) = Lower(device_name)}
        byAlias == {e \in entries : Truthy(e.props.Alias)
                                    /\ Lower(Val(e.props.Alias)) = Lower(device_name)}
    IN  IF byName # {}
        THEN {[addr |-> Some(e.addr),
               cache |-> CachePut(cache, Val(e.props.Name), e.addr)] : e \in byName}
        ELSE IF byAlias # {}
        THEN {[addr |-> Some(e.addr),
               cache |-> CachePut(cache, Val(e.props.Alias), e.addr)] : e \in byAlias}
        ELSE {[addr |-> None, cache |-> cache]}

\* lines 235-273: the cache a scan leaves.  For every name or alias in the
\* snapshot the last device carrying it wins, and the order is the daemon's.
ScanKeys(bz) ==
    {Val(e.props.Name) : e \in {x \in find_device_entries(bz) : Truthy(x.props.Name)}}
    \cup
    {Val(e.props.Alias) : e \in {x \in find_device_entries(bz) : Truthy(x.props.Alias)}}

ScanCaches(bz) ==
    { c \in [ScanKeys(bz) -> {Upper(a) : a \in Addrs}] :
        \A k \in ScanKeys(bz) :
            \E e \in find_device_entries(bz) :
                /\ e.addr = c[k]
                /\ (e.props.Name = Some(k) \/ e.props.Alias = Some(k)) }

\* lines 212-275: scan().  It raises when the adapter is not on the bus or
\* discovery does not start.  Discovery runs for scan_timeout seconds, so the
\* snapshot taken afterwards is of any daemon state bz2.
ScanOutcomes(cache, bz) ==
    IF ~bz.up
    THEN {[status |-> "BluetoothError", cache |-> cache, bluez |-> bz]}
    ELSE {[status |-> "BluetoothError", cache |-> cache, bluez |-> bz]}
         \cup
         UNION { IF ~bz2.up
                 THEN {[status |-> "DBusError", cache |-> cache, bluez |-> bz2]}
                 ELSE {[status |-> "ok", cache |-> c, bluez |-> bz2] :
                          c \in ScanCaches(bz2)}
                 : bz2 \in BluezStates }

\* What a resolution ends with; did lists what it called on the way: "cache"
\* for _devices_cache.get, "snapshot" for _resolve_name_in_bluez, "scan".
Resolved(status, addr, cache, bz, did) ==
    [status |-> status, addr |-> addr, cache |-> cache, bluez |-> bz, did |-> did]

\* lines 96-123: _resolve_device_to_addr.
ResolveOutcomes(device0, cache, bz) ==
    LET device == Strip(device0)
        cached == CacheGet(cache, device)
    IN  IF HasColon(device)
        THEN {Resolved("ok", Some(Upper(device)), cache, bz, <<>>)}
        ELSE IF Truthy(cached)
        THEN {Resolved("ok", cached, cache, bz, <<"cache">>)}
        ELSE IF ~bz.up
        THEN {Resolved("DBusError", None, cache, bz, <<"cache", "snapshot">>)}
        ELSE UNION {
            IF ~IsNone(r1.addr)
            THEN {Resolved("ok", r1.addr, r1.cache, bz, <<"cache", "snapshot">>)}
            ELSE UNION {
                IF s.status # "ok"
                THEN {Resolved(s.status, None, s.cache, s.bluez,
                               <<"cache", "snapshot", "scan">>)}
                ELSE { IF ~IsNone(r2.addr)
                       THEN Resolved("ok", r2.addr, r2.cache, s.bluez,
                                     <<"cache", "snapshot", "scan", "snapshot">>)
                       ELSE Resolved("BluetoothError", None, r2.cache, s.bluez,
                                     <<"cache", "snapshot", "scan", "snapshot">>)
                       : r2 \in resolve_name_in_bluez(device, s.cache, s.bluez) }
                : s \in ScanOutcomes(r1.cache, bz) }
            : r1 \in resolve_name_in_bluez(device, cache, bz) }

(***************************************************************************)
(* BluetoothManager: the session table, connect and disconnect.            *)
(* A manager call is one action; what the daemon, the service lookup and   *)
(* the socket answer during the call is chosen with \E.                    *)
(***************************************************************************)
NameLookups == {None, Some(NameHC)}
\* what the three find_service attempts can return: an RFCOMM port or none
ServiceLookups == [1..3 -> {None, Some(1)}]

\* A delete that leaves the entry in place.
DictKeep(c, k) == c

\* del dict[key]
DictDel(c, k) == [x \in DOMAIN c \ {k} |-> c[x]]

\* A value of type datetime: the moment t.
Timestamp(t) == [at |-> t]

\* bluetooth_connection_info.py line 24: the default of created_at is the
\* function datetime.now itself; nothing calls it.
CreatedAtDefault == [callable |-> "datetime.now"]

\* BluetoothConnection.__init__ (lines 27-40) as the manager sees the object;
\* the info is built without created_at and gets the default of the field.
NewSession(addr, port, name, connection_id) ==
    [address |-> addr, port |-> port,
     connection_id |-> IF IsNone(connection_id) THEN OrElse(name, Some(addr))
                       ELSE connection_id,
     created_at |-> CreatedAtDefault,
     sock |-> "open", stop_event |-> FALSE, is_connected |-> TRUE]

\* BluetoothConnection.disconnect (lines 237-248) when sock.close() returns,
\* or when the socket is gone already and nothing is closed.
SessionDisconnect(s) ==
    [s EXCEPT !.stop_event = TRUE, !.sock = "closed", !.is_connected = FALSE]

\* BluetoothConnection.disconnect when sock.close() raises: the stop event is
\* set (line 241), the finally clause drops the socket (line 246), and the
\* exception leaves disconnect before line 247.
SessionCloseFails(s) == [s EXCEPT !.stop_event = TRUE, !.sock = "closed"]

\* lines 242-244: whether sock.close() raises; it is called only while the
\* session still has its socket.
CloseRaises(s) == IF s.sock = "open" THEN {FALSE, TRUE} ELSE {FALSE}

NoCall ==
    [op |-> "none", device |-> <<>>, status |-> "none", addr |-> None,
     before |-> <<>>, after |-> <<>>]

MgrCall(o, device, status, addr, before, after) ==
    [op |-> o, device |-> device, status |-> status, addr |-> addr,
     before |-> before, after |-> after]

InitMgr ==
    /\ devices_cache = <<>>
    /\ connections = <<>>
    /\ sessions = <<>>
    /\ bluez \in BluezStates
    /\ mlast = NoCall
    /\ mprev = NoCall
    /\ mcalls = 0

\* The manager is constructed and never called.
IdleMgr ==
    /\ devices_cache = <<>>
    /\ connections = <<>>
    /\ sessions = <<>>
    /\ bluez = BluezDown
    /\ mlast = NoCall
    /\ mprev = NoCall
    /\ mcalls = 0

\* The call is over: remember it and the one before.
Logged(call) ==
    /\ mprev' = mlast
    /\ mlast' = call
    /\ mcalls' = mcalls + 1

\* lines 469-483: the link-level connect.  An unreachable daemon fails the
\* snapshot with the D-Bus library's own exception, which the handler for
\* BluetoothError does not catch; every other failure ends in that handler.
LinkOutcomes(bz, addr) ==
    IF ~bz.up THEN {"DBusError"}
    ELSE IF \A e \in find_device_entries(bz) : e.addr # addr THEN {"absent"}
    ELSE {"no_proxy", "connected", "NotAvailable", "Failed"}

\* lines 489-497: the attempts made and the port found.
FirstFound(svc) ==
    IF \E i \in 1..3 : ~IsNone(svc[i])
    THEN CHOOSE i \in 1..3 : ~IsNone(svc[i]) /\ \A j \in 1..(i - 1) : IsNone(svc[j])
    ELSE 0

\* lines 485-506: the name lookup, the service lookups and the socket connect:
\* the session to register, or None when the call raises BluetoothError.
EstablishOutcomes(addr) ==
    { LET found == FirstFound(svc)
      IN  IF found = 0 \/ ~sockOK THEN None
          ELSE Some(NewSession(addr, Val(svc[found]), name, OrElse(name, Some(addr))))
      : name \in NameLookups, svc \in ServiceLookups, sockOK \in BOOLEAN }

\* lines 462-518: connect(device).
MgrConnect(device) ==
    /\ mcalls < MaxMgrCalls
    /\ Len(sessions) < MaxSessions
    /\ \E r \in ResolveOutcomes(device, devices_cache, bluez) :
        /\ devices_cache' = r.cache
        /\ bluez' = r.bluez
        /\ IF r.status # "ok"
           THEN /\ Logged(MgrCall("connect", device, r.status, None,
                                  connections, connections))
                /\ UNCHANGED <<connections, sessions>>
           ELSE IF "DBusError" \in LinkOutcomes(r.bluez, Val(r.addr))
           THEN /\ Logged(MgrCall("connect", device, "DBusError", r.addr,
                                  connections, connections))
                /\ UNCHANGED <<connections, sessions>>
           ELSE \E conn \in EstablishOutcomes(Val(r.addr)) :
                IF IsNone(conn)
                THEN /\ Logged(MgrCall("connect", device, "BluetoothError",
                                       r.addr, connections, connections))
                     /\ UNCHANGED <<connections, sessions>>
                ELSE /\ sessions' = Append(sessions, Val(conn))
                     /\ connections' =
                           CachePut(connections, Val(r.addr), Len(sessions) + 1)
                     /\ Logged(MgrCall("connect", device, "ok", r.addr,
                                       connections, connections'))
    /\ UNCHANGED <<sessionVars, pairVars, restVars>>

\* lines 520-537: disconnect(device).  The link-level disconnect that ends the
\* call swallows every exception and changes nothing the manager keeps.
MgrDisconnect(device) ==
    /\ mcalls < MaxMgrCalls
    /\ \E r \in ResolveOutcomes(device, devices_cache, bluez) :
        /\ devices_cache' = r.cache
        /\ bluez' = r.bluez
        /\ IF r.status # "ok"
           THEN /\ Logged(MgrCall("disconnect", device, r.status, None,
                                  connections, connections))
                /\ UNCHANGED <<connections, sessions>>
           ELSE LET addr == Val(r.addr)
                    conn == CacheGet(connections, addr)
                IN  IF ~IsNone(conn)
                    THEN \E raises \in CloseRaises(sessions[Val(conn)]) :
                         IF raises
                         THEN /\ sessions' = [sessions EXCEPT
                                                ![Val(conn)] = SessionCloseFails(@)]
                              /\ UNCHANGED connections
                              /\ Logged(MgrCall("disconnect", device, "OSError",
                                                r.addr, connections, connections))
                         ELSE /\ sessions' = [sessions EXCEPT
                                                ![Val(conn)] = SessionDisconnect(@)]
                              /\ connections' = DictDel(connections, addr)
                              /\ Logged(MgrCall("disconnect", device, "ok", r.addr,
                                                connections, connections'))
                    ELSE /\ UNCHANGED <<connections, sessions>>
                         /\ Logged(MgrCall("disconnect", device, "ok", r.addr,
                                           connections, connections))
    /\ UNCHANGED <<sessionVars, pairVars, restVars>>

\* The sessions the table holds.
Registered(c) == {c[a] : a \in DOMAIN c}

\* lines 548-557: disconnect_all().  The loop takes the sessions in the order
\* of the table's keys, the order in which they were registered; k is the
\* session whose close() raises, which ends the loop and the call before the
\* table is cleared, and 0 when none does.
MgrDisconnectAll ==
    /\ mcalls < MaxMgrCalls
    /\ \E k \in {0} \cup {i \in Registered(connections) : TRUE \in CloseRaises(sessions[i])} :
        /\ sessions' = [i \in 1..Len(sessions) |->
                           IF i \in Registered(connections) /\ (k = 0 \/ i < k)
                           THEN SessionDisconnect(sessions[i])
                           ELSE IF i = k THEN SessionCloseFails(sessions[i])
                           ELSE sessions[i]]
        /\ connections' = IF k = 0 THEN <<>> ELSE connections
        /\ Logged(MgrCall("disconnect_all", <<>>, IF k = 0 THEN "ok" ELSE "OSError",
                          None, connections, connections'))
    /\ UNCHANGED <<devices_cache, bluez>>
    /\ UNCHANGED <<sessionVars, pairVars, restVars>>

\* lines 212-275: scan() called by a client.
MgrScan ==
    /\ mcalls < MaxMgrCalls
    /\ \E s \in ScanOutcomes(devices_cache, bluez) :
        /\ devices_cache' = s.cache
        /\ bluez' = s.bluez
        /\ Logged(MgrCall("scan", <<>>, s.status, None, connections, connections))
    /\ UNCHANGED <<connections, sessions>>
    /\ UNCHANGED <<sessionVars, pairVars, restVars>>

\* The daemon goes away or comes back, devices
\* appear, vanish or are renamed.
DaemonChange ==
    /\ mcalls < MaxMgrCalls
    /\ bluez' \in BluezStates \ {bluez}
    /\ UNCHANGED <<devices_cache, connections, sessions, mlast, mprev, mcalls>>
    /\ UNCHANGED <<sessionVars, pairVars, restVars>>

NextMgr ==
    \/ \E device \in SessionArgs : MgrConnect(device)
    \/ \E device \in SessionArgs : MgrDisconnect(device)
    \/ MgrDisconnectAll
    \/ MgrScan
    \/ DaemonChange

(***************************************************************************)
(* BluetoothManager.pair and the PIN exchange with the control shell       *)
(* (_pair_with_pin_via_bluetoothctl).  The shell is the environment: what  *)
(* each expect() matches, and whether a write to the shell gets through,   *)
(* is chosen with \E.  shlog is the transcript of the current call.        *)
(***************************************************************************)
MaxPairCalls == 2

Pin12 == <<49, 50>>                      \* "12"
\* pin: absent, the empty string, a PIN
PinArgs == {None, Some(<<>>), Some(Pin12)}

NoPairArgs == [device |-> <<>>, pin |-> None, trust |-> FALSE]
NoOutcome == [status |-> "none"]

InitPair ==
    /\ ppc = "idle"
    /\ pargs = NoPairArgs
    /\ paddr = None
    /\ child = "none"
    /\ shlog = <<>>
    /\ pexc = "none"
    /\ pout = NoOutcome
    /\ trustReq = FALSE
    /\ pcalls = 0

\* One entry of the transcript: a line written, an event matched, a write
\* that failed.
Entry(k, arg) == [k |-> k, arg |-> arg]

\* The call returns (status "ok") or raises.
PairReturn(status) ==
    /\ pout' = [status |-> status]
    /\ ppc' = "idle"
    /\ pcalls' = pcalls + 1

\* lines 403-412: pair(device, pin, trust) resolves the device and takes the
\* shell path when the PIN is truthy.
PairCall(device, pin, trust) ==
    /\ ppc = "idle"
    /\ pcalls < MaxPairCalls
    /\ pargs' = [device |-> device, pin |-> pin, trust |-> trust]
    /\ child' = "none"
    /\ shlog' = <<>>
    /\ pexc' = "none"
    /\ trustReq' = FALSE
    /\ \E r \in ResolveOutcomes(device, devices_cache, bluez) :
        /\ devices_cache' = r.cache
        /\ bluez' = r.bluez
        /\ paddr' = r.addr
        /\ IF r.status # "ok"
           THEN PairReturn(r.status)
           ELSE /\ ppc' = IF Truthy(pin) THEN "spawn" ELSE "dbus_pair"
                /\ pout' = NoOutcome
                /\ UNCHANGED pcalls
    /\ UNCHANGED <<connections, sessions, mlast, mprev, mcalls>>
    /\ UNCHANGED <<sessionVars, restVars>>

\* An exception inside the try block: the finally clause runs next.
Raised(exc) ==
    /\ pexc' = exc
    /\ ppc' = "quit"

\* lines 311 and 316: timeout=30 is handed to pexpect.spawn, where it is the
\* time each expect call waits before it gives up with TIMEOUT.
ShellTimeout == 30

\* The seconds the spawned shell takes to answer an expect call that matches:
\* any time short of the timeout (here: none, or all but one second; the same
\* for every answer of one shell).
ShellLatencies == {0, ShellTimeout - 1}

\* The seconds one expect call takes: the full timeout when it ends in
\* TIMEOUT, else the time the shell took to answer.
ExpectWait(log, timedOut) == IF timedOut THEN ShellTimeout ELSE log[1].arg[1]

\* The transcript with the wait of one expect call noted.
Waited(log, timedOut) == Append(log, Entry("expect", <<ExpectWait(log, timedOut)>>))

\* line 316: spawn the shell; a failure is raised before the try block.
PinSpawn ==
    /\ ppc = "spawn"
    /\ \E ok \in BOOLEAN :
        IF ok
        THEN /\ child' = "running"
             /\ \E lat \in ShellLatencies : shlog' = <<Entry("spawn", <<lat>>)>>
             /\ ppc' = "prompt"
             /\ UNCHANGED <<pout, pcalls>>
        ELSE /\ PairReturn("SpawnError")
             /\ UNCHANGED <<child, shlog>>
    /\ UNCHANGED <<pargs, paddr, pexc, trustReq>>
    /\ UNCHANGED <<sessionVars, mgrVars, restVars>>

\* child.expect(prompt): the prompt, or the exception pexpect raises for a
\* pattern that is not in the list.
PromptEvents == {"prompt", "pexpect.EOF", "pexpect.TIMEOUT"}

\* line 320
PinPrompt ==
    /\ ppc = "prompt"
    /\ \E ev \in PromptEvents :
        /\ shlog' = Waited(shlog, ev = "pexpect.TIMEOUT")
        /\ IF ev = "prompt" THEN ppc' = "agent" /\ UNCHANGED pexc ELSE Raised(ev)
    /\ UNCHANGED <<pargs, paddr, child, pout, trustReq, pcalls>>
    /\ UNCHANGED <<sessionVars, mgrVars, restVars>>

\* child.sendline(line) followed by child.expect(prompt)
SendAndPrompt(k, nextpc) ==
    \E wrote \in BOOLEAN, ev \in PromptEvents :
        IF ~wrote
        THEN /\ Raised("OSError")
             /\ UNCHANGED shlog
        ELSE /\ shlog' = Waited(Append(shlog, Entry(k, <<>>)), ev = "pexpect.TIMEOUT")
             /\ IF ev = "prompt" THEN ppc' = nextpc /\ UNCHANGED pexc ELSE Raised(ev)

\* lines 323-325
PinAgent ==
    /\ ppc = "agent"
    /\ SendAndPrompt("agent KeyboardOnly", "default_agent")
    /\ UNCHANGED <<pargs, paddr, child, pout, trustReq, pcalls>>
    /\ UNCHANGED <<sessionVars, mgrVars, restVars>>

\* lines 327-328
PinDefaultAgent ==
    /\ ppc = "default_agent"
    /\ SendAndPrompt("default-agent", "pair_cmd")
    /\ UNCHANGED <<pargs, paddr, child, pout, trustReq, pcalls>>
    /\ UNCHANGED <<sessionVars, mgrVars, restVars>>

\* line 331
PinPairCmd ==
    /\ ppc = "pair_cmd"
    /\ \E wrote \in BOOLEAN :
        IF wrote
        THEN /\ shlog' = Append(shlog, Entry("pair", Val(paddr)))
             /\ ppc' = "first_event"
             /\ UNCHANGED pexc
        ELSE /\ Raised("OSError")
             /\ UNCHANGED shlog
    /\ UNCHANGED <<pargs, paddr, child, pout, trustReq, pcalls>>
    /\ UNCHANGED <<sessionVars, mgrVars, restVars>>

\* A first branch that answers "AlreadyExists" with the PIN too.
FirstEventPinOnExists(idx) ==
    IF idx = 0 \/ idx = 4 THEN "pin"
    ELSE IF idx = 3 THEN "ok"
    ELSE IF idx \in {1, 2} THEN "BluetoothAuthenticationError"
    ELSE "BluetoothError"

\* lines 334-344, 367-379: what the index of the first matched event leads to;
\* 0 PIN request, 1 "Failed to pair", 2 "Authentication Failed",
\* 3 "Pairing successful", 4 "AlreadyExists", 5 EOF, 6 TIMEOUT.
FirstEventOutcome(idx) ==
    IF idx = 0 THEN "pin"
    ELSE IF idx = 3 \/ idx = 4 THEN "ok"
    ELSE IF idx \in {1, 2} THEN "BluetoothAuthenticationError"
    ELSE "BluetoothError"

\* A return inside the try block is an outcome "ok" with no exception pending.
Finish(outcome) == Raised(IF outcome = "ok" THEN "none" ELSE outcome)

PinFirstEvent ==
    /\ ppc = "first_event"
    /\ \E idx \in 0..6 :
        /\ shlog' = Append(Waited(shlog, idx = 6), Entry("event1", <<idx>>))
        /\ IF FirstEventOutcome(idx) = "pin"
           THEN ppc' = "pin" /\ UNCHANGED pexc
           ELSE Finish(FirstEventOutcome(idx))
    /\ UNCHANGED <<pargs, paddr, child, pout, trustReq, pcalls>>
    /\ UNCHANGED <<sessionVars, mgrVars, restVars>>

\* A shell write that puts the PIN line out twice.
PinLinesTwice(pin) == <<Entry("pin", pin), Entry("pin", pin)>>

\* line 346: the lines child.sendline(pin) writes.
PinLines(pin) == <<Entry("pin", pin)>>

\* line 346
PinSend ==
    /\ ppc = "pin"
    /\ \E wrote \in BOOLEAN :
        IF wrote
        THEN /\ shlog' = shlog \o PinLines(Val(pargs.pin))
             /\ ppc' = "second_event"
             /\ UNCHANGED pexc
        ELSE /\ Raised("OSError")
             /\ UNCHANGED shlog
    /\ UNCHANGED <<pargs, paddr, child, pout, trustReq, pcalls>>
    /\ UNCHANGED <<sessionVars, mgrVars, restVars>>

\* A second branch that takes "AlreadyExists" for a breakdown.
SecondEventExistsFails(idx2) ==
    IF idx2 = 0 THEN "ok"
    ELSE IF idx2 \in {1, 2} THEN "BluetoothAuthenticationError"
    ELSE "BluetoothError"

\* lines 348-365: what the index of the event after the PIN leads to;
\* 0 "Pairing successful", 1 "Failed to pair", 2 "Authentication Failed",
\* 3 "AlreadyExists", 4 EOF, 5 TIMEOUT.
SecondEventOutcome(idx2) ==
    IF idx2 = 0 \/ idx2 = 3 THEN "ok"
    ELSE IF idx2 \in {1, 2} THEN "BluetoothAuthenticationError"
    ELSE "BluetoothError"

PinSecondEvent ==
    /\ ppc = "second_event"
    /\ \E idx2 \in 0..5 :
        /\ shlog' = Append(Waited(shlog, idx2 = 5), Entry("event2", <<idx2>>))
        /\ Finish(SecondEventOutcome(idx2))
    /\ UNCHANGED <<pargs, paddr, child, pout, trustReq, pcalls>>
    /\ UNCHANGED <<sessionVars, mgrVars, restVars>>

\* lines 383-386: the write of "quit"; its failure is caught and dropped.
PinQuit ==
    /\ ppc = "quit"
    /\ \E wrote \in BOOLEAN :
        shlog' = Append(shlog, Entry(IF wrote THEN "quit" ELSE "quit failed", <<>>))
    /\ ppc' = "close"
    /\ UNCHANGED <<pargs, paddr, child, pexc, pout, trustReq, pcalls>>
    /\ UNCHANGED <<sessionVars, mgrVars, restVars>>

\* A cleanup whose failed write of "quit" takes the place of the outcome.
QuitFailureWins(pending, quitWritten) == IF quitWritten THEN pending ELSE "OSError"

\* lines 381-387: what leaves the finally clause: the pending exception of the
\* try block, whatever became of the write of "quit".
AfterFinally(pending, quitWritten) == pending

QuitWritten == \E i \in 1..Len(shlog) : shlog[i].k = "quit"

\* line 387: child.close() ends the subprocess (close(force=True) goes up to
\* SIGKILL); then the pending exception is raised, or pair() goes on.
PinClose ==
    /\ ppc = "close"
    /\ child' = "closed"
    /\ IF AfterFinally(pexc, QuitWritten) = "none"
       THEN /\ ppc' = "trust"
            /\ UNCHANGED <<pout, pcalls>>
       ELSE PairReturn(AfterFinally(pexc, QuitWritten))
    /\ UNCHANGED <<pargs, paddr, shlog, pexc, trustReq>>
    /\ UNCHANGED <<sessionVars, mgrVars, restVars>>

Present(bz, addr) == \E e \in find_device_entries(bz) : e.addr = Upper(addr)

\* lines 416-422: make sure the daemon sees the device, scanning once if it
\* does not, then get its proxy.  The result is "ok" or the exception raised.
VisibleOutcomes(addr, cache, bz) ==
    IF ~bz.up THEN {[status |-> "DBusError", cache |-> cache, bluez |-> bz]}
    ELSE IF Present(bz, addr)
    THEN {[status |-> st, cache |-> cache, bluez |-> bz] :
             st \in {"ok", "BluetoothError"}}
    ELSE { IF s.status # "ok" THEN s
           ELSE IF Present(s.bluez, addr)
           THEN [s EXCEPT !.status = st]
           ELSE [s EXCEPT !.status = "BluetoothError"]
           : s \in ScanOutcomes(cache, bz), st \in {"ok", "BluetoothError"} }

\* The messages of the exceptions Device1.Pair() fails with.  Of these only
\* the first contains "org.bluez.Error.AuthenticationFailed".
PairFailures ==
    {"org.bluez.Error.AuthenticationFailed", "org.bluez.Error.AuthenticationCanceled",
     "org.bluez.Error.ConnectionAttemptFailed"}

\* line 428: "org.bluez.Error.AuthenticationFailed" in msg
CarriesAuthSignature(msg) == msg = "org.bluez.Error.AuthenticationFailed"

\* A mapping that reports every failure of Pair() as the generic error.
PairExceptionGeneric(msg) == "BluetoothError"

\* lines 426-432: the exception a failure of Pair() is turned into.
PairException(msg) ==
    IF CarriesAuthSignature(msg) THEN "BluetoothAuthenticationError"
    ELSE "BluetoothError"

\* lines 424-432: what Device1.Pair() does.
DBusPairOutcomes == {"ok"} \cup PairFailures

\* lines 413-432: pairing over D-Bus, for a call without PIN.
PairDBus ==
    /\ ppc = "dbus_pair"
    /\ \E v \in VisibleOutcomes(Val(paddr), devices_cache, bluez) :
        /\ devices_cache' = v.cache
        /\ bluez' = v.bluez
        /\ IF v.status # "ok"
           THEN PairReturn(v.status) /\ UNCHANGED shlog
           ELSE \E o \in DBusPairOutcomes :
                /\ shlog' = Append(shlog, Entry("Pair", <<o>>))
                /\ IF o = "ok"
                   THEN /\ ppc' = "trust"
                        /\ UNCHANGED <<pout, pcalls>>
                   ELSE PairReturn(PairException(o))
    /\ UNCHANGED <<pargs, paddr, child, pexc, trustReq>>
    /\ UNCHANGED <<connections, sessions, mlast, mprev, mcalls>>
    /\ UNCHANGED <<sessionVars, restVars>>

\* lines 437-440: the request made on the device proxy, dev.Trust() when the
\* proxy has it, else dev.Set(...), and the note of its failure.
TrustEntries(hasTrust, ok) ==
    <<Entry("trust", <<IF hasTrust THEN "Trust" ELSE "Set">>)>>
    \o (IF ok THEN <<>> ELSE <<Entry("trust failed", <<>>)>>)

\* lines 434-443: mark the device trusted; whatever the request raises is
\* dropped.  `dev` is bound on the D-Bus path only; after the shell path its
\* use raises, and the handler drops that too.
PairTrust ==
    /\ ppc = "trust"
    /\ IF pargs.trust /\ ~Truthy(pargs.pin)
       THEN /\ trustReq' = TRUE
            /\ \E hasTrust \in BOOLEAN, ok \in BOOLEAN :
                  shlog' = shlog \o TrustEntries(hasTrust, ok)
       ELSE /\ trustReq' = FALSE
            /\ UNCHANGED shlog
    /\ PairReturn("ok")
    /\ UNCHANGED <<pargs, paddr, child, pexc>>
    /\ UNCHANGED <<sessionVars, mgrVars, restVars>>

PinStep ==
    \/ PinSpawn \/ PinPrompt \/ PinAgent \/ PinDefaultAgent \/ PinPairCmd
    \/ PinFirstEvent \/ PinSend \/ PinSecondEvent \/ PinQuit \/ PinClose

NextPair ==
    \/ \E device \in DeviceArgs, pin \in PinArgs, trust \in BOOLEAN :
          PairCall(device, pin, trust)
    \/ PinStep
    \/ PairDBus
    \/ PairTrust

(***************************************************************************)
(* Specifications.                                                         *)
(***************************************************************************)
\* A session nobody uses, for the specifications of the manager.
IdleSession == InitSession /\ peerMode = "silent"

\* One session in use; the manager constructed and not called.
InitSessionSpec == InitSession /\ IdleMgr /\ InitPair /\ InitRest

SessionSpec == InitSessionSpec /\ [][NextSession]_vars

\* The steps inside send_receive_msg, and the fairness of its thread and of the
\* clock: a runnable thread is scheduled, and time passes.
SRStep ==
    SendCheck \/ SendSock \/ SendSockFails \/ SendRemember \/ SRDeadline
    \/ SRAcquire \/ SRLoop
    \/ SRWake \/ SRDrain \/ SRMerge

FairSessionSpec ==
    InitSessionSpec /\ [][NextSession]_vars /\ WF_vars(Tick) /\ WF_vars(SRStep)

\* The manager constructed, with the daemon in any state.
InitManager == IdleSession /\ InitMgr /\ InitPair /\ InitRest

PairSpec == InitManager /\ [][NextPair]_vars

MgrSpec == InitManager /\ [][NextMgr]_vars

(***************************************************************************)
(* Properties of the session.                                              *)
(***************************************************************************)
SRReturned == pc = "idle" /\ ret.op = "send_receive_msg" /\ ret.status = "ok"
Returned == Val(ret.value)

\* The entries the finished call took out of the inbox that are no echo of its
\* record.
KeptOf(r, popped) == SelectSeq(popped, LAMBDA c : ~is_echo(r, c))
TextsOf(q) == [i \in 1..Len(q) |-> Val(q[i].received_message)]
BytesOf(q) == [i \in 1..Len(q) |-> Val(q[i].received_bytes)]

\* C1 (as claimed): the reflection of a sent payload that arrives as the next
\* data is never appended to the inbox, and receive_msg never returns it.
C1_EchoNeverInInbox ==
    /\ \A i \in 1..Len(incoming) : incoming[i].origin # "echo"
    /\ (ret.op = "receive_msg" /\ ~IsNone(ret.value)) => Val(ret.value).origin # "echo"

\* C2 (as claimed): with a peer that replies b"OK\r\n" once after each send,
\* a send_receive_msg call that took the reply out of the inbox returns
\* received_message == "OK" and received_at not None.
C2_ReplyIsOK ==
    (SRReturned /\ peerMode = "ok"
        /\ \E i \in 1..Len(hist.removed) : hist.removed[i].origin = "reply")
    => /\ Returned.received_message = Some(TxtOK)
       /\ ~IsNone(Returned.received_at)

\* C4 (as claimed): when the peer's two reads b"LINE1\r\n" and b"LINE2\r\n" both
\* arrive after the send and before the deadline, the returned record has
\* received_message == "LINE1\nLINE2".
BothLinesInTime ==
    /\ Len(hist.arrived) = 2
    /\ \A i \in 1..2 : /\ hist.arrived[i].sent
                       /\ hist.arrived[i].e.origin = "reply"
                       /\ Val(hist.arrived[i].e.received_at) < end_time

C4_TwoLinesJoined ==
    (SRReturned /\ peerMode = "lines" /\ BothLinesInTime)
    => Returned.received_message = Some(TxtLINE1 \o <<LF>> \o TxtLINE2)

\* A message that is no echo of the returned record was appended to the inbox
\* after the payload went out / after the watermark was taken.
NonEchoAfterSend ==
    \E i \in 1..Len(hist.arrived) :
        hist.arrived[i].sent /\ ~is_echo(Returned, hist.arrived[i].e)
NonEchoAfterWatermark ==
    \E i \in 1..Len(hist.arrived) : ~is_echo(Returned, hist.arrived[i].e)

\* The call returned at or after its deadline with empty received fields.
TimedOutEmpty ==
    /\ now >= end_time
    /\ end_time >= Val(Returned.send_at) + timeout
    /\ Returned.received_message = Some(<<>>)
    /\ Returned.received_bytes = Some(<<>>)
    /\ IsNone(Returned.received_at)

SRActive == op = "send_receive_msg" /\ pc # "idle"

C5_NothingDiscarded ==
    /\ SRReturned =>
          LET kept == KeptOf(Returned, hist.removed)
          IN  kept # <<>> =>
                /\ Returned.received_bytes = Some(Concat(BytesOf(kept)))
                /\ Returned.received_message = Some(JoinNL(TextsOf(kept)))
                /\ Returned.received_at = kept[Len(kept)].received_at
    /\ SRActive => collected = KeptOf(rec, hist.removed)

\* C5 witness: a call returned two fragments and had dropped an echo.
C5_Witness ==
    /\ SRReturned
    /\ Len(KeptOf(Returned, hist.removed)) = 2
    /\ Len(hist.removed) = 3

(***************************************************************************)
(* Properties of BluetoothManager.disconnect.                              *)
(***************************************************************************)
TornDown(i) ==
    sessions[i].sock = "closed" /\ sessions[i].stop_event /\ ~sessions[i].is_connected

\* The last two manager calls were disconnect(device) with the same argument.
TwiceInARow ==
    /\ mlast.op = "disconnect"
    /\ mprev.op = "disconnect"
    /\ mlast.device = mprev.device

Positions(k) == {i \in 1..Len(shlog) : shlog[i].k = k}

Event1(idx) == \E i \in Positions("event1") : shlog[i].arg = <<idx>>
Event2(idx2) == \E i \in Positions("event2") : shlog[i].arg = <<idx2>>

\* pair() has returned or raised.
PairDone == ppc = "idle" /\ pout.status # "none"

PinWritten == Positions("pin") # {}

\* C7: when the shell emits "Enter PIN code:" after the pair command and
\* "Pairing successful" after the PIN, pair(device, pin) succeeds, and the
\* PIN line is written exactly once, after the pair command and before the
\* outcome.
C7_PinBranch ==
    (PairDone /\ Event1(0) /\ Event2(0)) =>
        /\ pout.status = "ok"
        /\ Cardinality(Positions("pin")) = 1
        /\ \A p \in Positions("pin") :
              /\ shlog[p].arg = Val(pargs.pin)
              /\ \E c \in Positions("pair") : c < p /\ shlog[c].arg = Val(paddr)
              /\ \A e \in Positions("event1") : e < p
              /\ \A e \in Positions("event2") : p < e

\* C7 witness: a call that was asked for the PIN and then told of success.
C7_Witness ==
    /\ PairDone /\ pout.status = "ok"
    /\ Event1(0) /\ Event2(0)
    /\ Positions("pin") # {}

\* C8: after `pair <address>`, a first event success or already-exists ends
\* the call successfully, an authentication failure ends it with
\* BluetoothAuthenticationError, EOF or timeout with BluetoothError, each
\* without the PIN being written; the PIN is written only after the first
\* event was the PIN request.
C8_FirstBranch ==
    /\ PairDone =>
          /\ (Event1(3) \/ Event1(4)) => (pout.status = "ok" /\ ~PinWritten)
          /\ (Event1(1) \/ Event1(2)) =>
                (pout.status = "BluetoothAuthenticationError" /\ ~PinWritten)
          /\ (Event1(5) \/ Event1(6)) =>
                (pout.status = "BluetoothError" /\ ~PinWritten)
    /\ \A p \in Positions("pin") :
          \E e \in Positions("event1") : e < p /\ shlog[e].arg = <<0>>
    /\ \A e \in Positions("event1") : \E c \in Positions("pair") : c < e

\* C8 witness: the shell answered the pair command with "AlreadyExists".
C8_Witness ==
    /\ PairDone /\ pout.status = "ok"
    /\ Event1(4)
    /\ ~PinWritten

\* C9: once the PIN has been written, a success or already-paired event ends
\* the call successfully, an authentication failure ends it with
\* BluetoothAuthenticationError, EOF or timeout with BluetoothError; the call
\* ends in no other way, and no second PIN is written.
C9_SecondBranch ==
    /\ (PairDone /\ PinWritten) =>
          /\ Cardinality(Positions("event2")) = 1
          /\ (Event2(0) \/ Event2(3)) => pout.status = "ok"
          /\ (Event2(1) \/ Event2(2)) => pout.status = "BluetoothAuthenticationError"
          /\ (Event2(4) \/ Event2(5)) => pout.status = "BluetoothError"
          /\ pout.status \in {"ok", "BluetoothAuthenticationError", "BluetoothError"}
    /\ Cardinality(Positions("pin")) <= 1
    /\ \A e \in Positions("event2") : \E p \in Positions("pin") : p < e

\* C9 witness: the PIN was written and the shell reported a failed
\* authentication.
C9_Witness ==
    /\ PairDone /\ pout.status = "BluetoothAuthenticationError"
    /\ PinWritten
    /\ Event2(2)

QuitAttempted == Positions("quit") \cup Positions("quit failed") # {}

\* C10: on every path of the PIN exchange with a shell, `quit` is attempted
\* and the subprocess is closed before pair() returns or raises, and the
\* outcome is the one of the exchange, whether or not `quit` could be written.
C10_ShellTerminated ==
    /\ child = "running" => ppc # "idle"
    /\ child = "closed" => QuitAttempted
    /\ (PairDone /\ child # "none") =>
          /\ child = "closed"
          /\ QuitAttempted
          /\ pout.status = IF pexc = "none" THEN "ok" ELSE pexc

\* C10 witness: waiting for the prompt ended in EOF, `quit` could not be
\* written, and the call raised the EOF.
C10_Witness ==
    /\ PairDone /\ pout.status = "pexpect.EOF"
    /\ Positions("quit failed") # {}
    /\ child = "closed"

(***************************************************************************)
(* Properties of send_msg on malformed records, on a closed session and    *)
(* on a broken link.                                                       *)
(***************************************************************************)
SendReturned == pc = "idle" /\ ret.op = "send_msg"

\* C17 (as claimed): send_msg rejects a record with neither and a record with
\* both of send_message / send_bytes with an error, and writes nothing to the
\* socket for it.
C17_ExactlyOne ==
    (op = "send_msg" /\ hist.given \in {"both", "neither"}) =>
        /\ ~hist.sent
        /\ pc \notin {"send_sock", "send_remember"}
        /\ SendReturned => ret.status \in {"ValueError", "BluetoothError"}

\* C18: once disconnect() has closed the socket, send_msg and send_receive_msg
\* return BluetoothError from the socket check, no write is attempted on the
\* closed socket, and the step that raises leaves the echo buffer, the inbox
\* and the wire as they were.
C18_ClosedSessionRefuses ==
    /\ [](pc \in {"send_sock", "send_remember"} => sock = "open")
    /\ []((pc = "idle" /\ ret.op \in {"send_msg", "send_receive_msg"}
              /\ sock = "closed") =>
            (ret.status = "BluetoothError" /\ ~hist.sent))
    /\ [][(pc = "send_check" /\ sock = "closed" /\ pc' # pc) =>
            /\ pc' = "idle"
            /\ ret'.status = "BluetoothError"
            /\ last_sent' = last_sent
            /\ incoming' = incoming
            /\ wire' = wire]_vars

\* C18 witness: send_receive_msg was called after disconnect() and raised
\* BluetoothError.
C18_Witness ==
    /\ pc = "idle" /\ ret.op = "send_receive_msg"
    /\ ret.status = "BluetoothError"
    /\ sock = "closed" /\ ~is_connected

\* C20 (as claimed): once the listener has ended on a socket I/O error the
\* session is closed: is_connected is false and the socket is gone, so that
\* send_msg raises BluetoothError from its socket check.
C20_ListenerErrorClosesSession ==
    lpc = "dead" => (~is_connected /\ sock = "closed")

(***************************************************************************)
(* The inbox under concurrent callers: the listener appends, two caller    *)
(* threads run receive_msg and send_receive_msg.  Every access to          *)
(* self._incoming is made with self._incoming_lock held (lines 106, 169,   *)
(* 178, 189; the condition variable is built on that lock, line 44), so a  *)
(* block under the lock is one step; wait() gives the lock up.             *)
(***************************************************************************)
MaxArrivals == 3
MaxInboxOps == 3

\* list.pop(i): the element at index i (from 0) and the list without it.
PopAt(q, i) ==
    [value |-> q[i + 1], rest |-> SubSeq(q, 1, i) \o SubSeq(q, i + 2, Len(q))]

\* A receive_msg that returns the oldest entry and leaves it in the inbox.
IbReceiveKeeps(q) ==
    IF q = <<>> THEN [value |-> None, rest |-> q]
    ELSE [value |-> Some(q[1]), rest |-> q]

\* receive_msg lines 169-172: None for an empty inbox, else pop(0).
IbReceive(q) ==
    IF q = <<>> THEN [value |-> None, rest |-> q]
    ELSE [value |-> Some(PopAt(q, 0).value), rest |-> PopAt(q, 0).rest]

\* lines 100-108: the listener appends the next record that arrived; whether it
\* is an echo of a caller's record is decided by _is_echo in the drain.
IbArrive ==
    /\ iarrived < MaxArrivals
    /\ \E e \in BOOLEAN :
          ibox' = Append(ibox, [n |-> iarrived + 1, echo |-> e])
    /\ iarrived' = iarrived + 1
    /\ UNCHANGED <<sessionVars, mgrVars, pairVars, connVars, queryVars, moreVars>>
    /\ UNCHANGED <<ipc, istart, icollected, ihanded, ilast, iops, iwin>>

\* receive_msg, lines 165-172, whole under the lock.
IbCallReceive(c) ==
    /\ ipc[c] = "idle" /\ iops < MaxInboxOps
    /\ LET r == IbReceive(ibox)
       IN  /\ ibox' = r.rest
           /\ ilast' = [caller |-> c, before |-> ibox, value |-> r.value]
           /\ ihanded' = IF IsNone(r.value) THEN ihanded
                         ELSE Append(ihanded, <<c, Val(r.value).n>>)
    /\ iops' = iops + 1
    /\ UNCHANGED <<sessionVars, mgrVars, pairVars, connVars, queryVars, moreVars>>
    /\ UNCHANGED <<iarrived, ipc, istart, icollected, iwin>>

\* send_receive_msg lines 178-179: the watermark, under the lock.
IbCallSendReceive(c) ==
    /\ ipc[c] = "idle" /\ iops < MaxInboxOps
    /\ istart' = [istart EXCEPT ![c] = Len(ibox)]
    /\ icollected' = [icollected EXCEPT ![c] = <<>>]
    /\ ipc' = [ipc EXCEPT ![c] = "send"]
    /\ iwin' = [iwin EXCEPT ![c] = NoWindow]
    /\ iops' = iops + 1
    /\ UNCHANGED <<sessionVars, mgrVars, pairVars, connVars, queryVars, moreVars>>
    /\ UNCHANGED <<ibox, iarrived, ihanded, ilast>>

\* lines 182-189: send_msg, the deadline, and the lock is taken.
IbSend(c) ==
    /\ ipc[c] = "send"
    /\ ipc' = [ipc EXCEPT ![c] = "loop"]
    /\ iwin' = [iwin EXCEPT ![c] = [sent |-> Some(iarrived), alive |-> iarrived]]
    /\ UNCHANGED <<sessionVars, mgrVars, pairVars, connVars, queryVars, moreVars>>
    /\ UNCHANGED <<ibox, iarrived, istart, icollected, ihanded, ilast, iops>>

\* lines 200-212 for caller c: pop every entry beyond its watermark, drop the
\* echoes, collect the rest; leave the loop when something has been collected.
IbDrain(c) ==
    LET popped == Beyond(ibox, istart[c])
        kept == SelectSeq(popped, LAMBDA e : ~e.echo)
    IN  /\ ibox' = IF Len(ibox) > istart[c] THEN SubSeq(ibox, 1, istart[c]) ELSE ibox
        /\ icollected' = [icollected EXCEPT ![c] = @ \o kept]
        /\ ihanded' = ihanded \o [i \in 1..Len(kept) |-> <<c, kept[i].n>>]
        /\ ipc' = [ipc EXCEPT ![c] = IF icollected[c] \o kept # <<>>
                                     THEN "merge" ELSE "loop"]

\* lines 190-212: the loop test with the lock held: past the deadline the loop
\* ends; with nothing beyond the watermark the caller waits; else it drains.
IbLoop(c) ==
    /\ ipc[c] = "loop"
    /\ \E expired \in BOOLEAN :
          IF expired
          THEN /\ ipc' = [ipc EXCEPT ![c] = "merge"]
               /\ UNCHANGED <<ibox, icollected, ihanded, iwin>>
          ELSE /\ iwin' = [iwin EXCEPT ![c].alive = iarrived]
               /\ IF Len(ibox) <= istart[c]
                  THEN /\ ipc' = [ipc EXCEPT ![c] = "wait"]
                       /\ UNCHANGED <<ibox, icollected, ihanded>>
                  ELSE IbDrain(c)
    /\ UNCHANGED <<sessionVars, mgrVars, pairVars, connVars, queryVars, moreVars>>
    /\ UNCHANGED <<iarrived, istart, ilast, iops>>

\* line 197 and lines 200-212: wait() returns, notified or timed out, with the
\* lock, and the drain runs.
IbWake(c) ==
    /\ ipc[c] = "wait"
    /\ IbDrain(c)
    /\ UNCHANGED <<sessionVars, mgrVars, pairVars, connVars, queryVars, moreVars>>
    /\ UNCHANGED <<iarrived, istart, ilast, iops, iwin>>

\* lines 214-235: the merge, and the call returns.
IbMerge(c) ==
    /\ ipc[c] = "merge"
    /\ ipc' = [ipc EXCEPT ![c] = "idle"]
    /\ UNCHANGED <<sessionVars, mgrVars, pairVars, connVars, queryVars, moreVars>>
    /\ UNCHANGED <<ibox, iarrived, istart, icollected, ihanded, ilast, iops, iwin>>

CallerOfInbox(c) ==
    \/ IbCallReceive(c) \/ IbCallSendReceive(c) \/ IbSend(c)
    \/ IbLoop(c) \/ IbWake(c) \/ IbMerge(c)

NextInbox == IbArrive \/ \E c \in Callers : CallerOfInbox(c)

\* A new session's inbox; the rest of the program idle.
InitInboxSpec == IdleSession /\ IdleMgr /\ InitPair /\ InitRest

InboxSpec == InitInboxSpec /\ [][NextInbox]_vars

(***************************************************************************)
(* Properties of the inbox.                                                *)
(***************************************************************************)
Increasing(q) == \A i, j \in 1..Len(q) : i < j => q[i] < q[j]
NumbersOf(q) == [i \in 1..Len(q) |-> q[i].n]
HandedNumbers == [i \in 1..Len(ihanded) |-> ihanded[i][2]]

\* C19 (as claimed): across the callers of receive_msg and send_receive_msg the
\* entries are handed out in arrival order.
C19_HandedInArrivalOrder == Increasing(HandedNumbers)

\* C19 (amended): the inbox holds its entries in arrival order; receive_msg
\* returns the oldest entry, None for an empty inbox, and can always be taken
\* by an idle caller; no entry is handed to two callers or handed twice, and an
\* entry handed out is no longer in the inbox; each send_receive_msg call
\* collects its entries in arrival order.
C19_InboxFifo ==
    /\ Increasing(NumbersOf(ibox))
    /\ ilast.caller # 0 =>
          ilast.value = IF ilast.before = <<>> THEN None ELSE Some(ilast.before[1])
    /\ \A c \in Callers :
          (ipc[c] = "idle" /\ iops < MaxInboxOps) => ENABLED IbCallReceive(c)
    /\ \A i, j \in 1..Len(ihanded) : i # j => ihanded[i][2] # ihanded[j][2]
    /\ \A i \in 1..Len(ihanded) : \A k \in 1..Len(ibox) : ibox[k].n # ihanded[i][2]
    /\ \A c \in Callers : Increasing(NumbersOf(icollected[c]))

\* C19 witness: both callers were handed entries, one of them two entries by
\* one send_receive_msg, the other the oldest entry by receive_msg.
C19_Witness ==
    /\ \E c \in Callers : Len(icollected[c]) = 2 /\ ipc[c] = "idle"
    /\ ilast.caller # 0 /\ ~IsNone(ilast.value)
    /\ \E i, j \in 1..Len(ihanded) : ihanded[i][1] # ihanded[j][1]

(***************************************************************************)
(* Properties of pair(): the time of the shell exchange, and the D-Bus     *)
(* path.                                                                   *)
(***************************************************************************)
RECURSIVE TotalWait(_)
\* The sum of the waits of the expect calls noted in a transcript.
TotalWait(log) ==
    IF log = <<>> THEN 0
    ELSE (IF Head(log).k = "expect" THEN Head(log).arg[1] ELSE 0)
         + TotalWait(Tail(log))

\* C11 (as claimed): the waits of all expect steps of one PIN pairing call sum
\* to no more than the one time budget of 30 seconds.
C11_WithinBudget == TotalWait(shlog) <= ShellTimeout

PairResult(o) == \E i \in Positions("Pair") : shlog[i].arg = <<o>>

\* C12: for pair() without a PIN, a failure of Pair() whose message carries
\* "org.bluez.Error.AuthenticationFailed" is raised as
\* BluetoothAuthenticationError and any other failure of Pair() as
\* BluetoothError; after a successful Pair() one trust request is made on the
\* device exactly when trust was asked for, and pair() returns normally whether
\* or not that request failed; no trust request is made unless Pair() succeeded.
C12_DBusPairMapping ==
    (PairDone /\ ~Truthy(pargs.pin)) =>
        /\ PairResult("org.bluez.Error.AuthenticationFailed") =>
              pout.status = "BluetoothAuthenticationError"
        /\ \A f \in PairFailures \ {"org.bluez.Error.AuthenticationFailed"} :
              PairResult(f) => pout.status = "BluetoothError"
        /\ PairResult("ok") =>
              /\ pout.status = "ok"
              /\ Cardinality(Positions("trust")) = IF pargs.trust THEN 1 ELSE 0
        /\ Positions("trust") # {} => PairResult("ok")
        /\ trustReq = (Positions("trust") # {})

\* C12 witness: Pair() succeeded, the trust request failed, and pair()
\* returned normally.
C12_Witness ==
    /\ PairDone /\ ~Truthy(pargs.pin) /\ pargs.trust
    /\ PairResult("ok")
    /\ Positions("trust failed") # {}
    /\ pout.status = "ok"

(***************************************************************************)
(* BluetoothManager.connect in steps (lines 462-518): the link-level       *)
(* connect, the name lookup, the service lookups, the socket, the          *)
(* registration.  clog notes what the call did.                            *)
(***************************************************************************)
MaxConnCalls == 2

\* One entry of the list bluetooth.find_service returns.
Svc(protocol, port) == [protocol |-> protocol, port |-> port]

\* What one find_service call can return.
ServiceLists ==
    { <<>>,
      <<Svc("L2CAP", 1)>>,
      <<Svc("L2CAP", 1), Svc("RFCOMM", 2)>>,
      <<Svc("RFCOMM", 1), Svc("RFCOMM", 2)>> }

\* What bluetooth.lookup_name can return: None, an empty name, a name.
ConnNames == {None, Some(<<>>), Some(NameHC)}

\* A search that takes the port of the last RFCOMM entry.
LastRfcomm(services) ==
    LET idx == {i \in 1..Len(services) : services[i].protocol = "RFCOMM"}
    IN  IF idx = {} THEN None
        ELSE Some(services[CHOOSE i \in idx : \A j \in idx : j <= i].port)

\* lines 491-494: the port of the first entry whose protocol is "RFCOMM".
FirstRfcomm(services) ==
    LET idx == {i \in 1..Len(services) : services[i].protocol = "RFCOMM"}
    IN  IF idx = {} THEN None
        ELSE Some(services[CHOOSE i \in idx : \A j \in idx : i <= j].port)

\* A loop that goes on until a port is found.
LoopForever(made) == TRUE

\* line 489: for _ in range(3)
LoopGoesOn(made) == made < 3

\* lines 471-480: the exception that leaves the inner try block for each
\* answer of Device1.Connect(); without a proxy _get_device_proxy raises.
LinkException(o) ==
    CASE o = "connected" -> "none"
      [] o = "NotAvailable" -> "none"
      [] o = "Failed" -> "BluetoothError"
      [] o \in {"no_proxy", "absent"} -> "BluetoothError"
      [] OTHER -> o

\* lines 481-483: except BluetoothError: pass
AfterLinkHandler(exc) == IF exc = "BluetoothError" THEN "none" ELSE exc

\* connect returns the session or raises.
ConnReturn(status, session) ==
    /\ cout' = [status |-> status, session |-> session]
    /\ cpc' = "idle"
    /\ ccalls' = ccalls + 1

\* line 466: addr = self._resolve_device_to_addr(device)
ConnCall(device) ==
    /\ cpc = "idle" /\ ccalls < MaxConnCalls
    /\ clog' = <<>>
    /\ cname' = None
    /\ ctries' = 0
    /\ cport' = None
    /\ csock' = "none"
    /\ \E r \in ResolveOutcomes(device, devices_cache, bluez) :
        /\ devices_cache' = r.cache
        /\ bluez' = r.bluez
        /\ caddr' = r.addr
        /\ IF r.status # "ok"
           THEN ConnReturn(r.status, None)
           ELSE /\ cpc' = "link"
                /\ cout' = NoConnect
                /\ UNCHANGED ccalls
    /\ UNCHANGED <<connections, sessions, mlast, mprev, mcalls>>
    /\ UNCHANGED <<sessionVars, pairVars, inboxVars, queryVars, moreVars>>

\* lines 469-483: the link-level connect and the two handlers around it.
ConnLink ==
    /\ cpc = "link"
    /\ \E o \in LinkOutcomes(bluez, Val(caddr)) :
        /\ clog' = Append(clog, Entry("link", <<o>>))
        /\ IF AfterLinkHandler(LinkException(o)) = "none"
           THEN /\ cpc' = "name"
                /\ UNCHANGED <<cout, ccalls>>
           ELSE ConnReturn(AfterLinkHandler(LinkException(o)), None)
    /\ UNCHANGED <<caddr, cname, ctries, cport, csock>>
    /\ UNCHANGED <<sessionVars, mgrVars, pairVars, inboxVars, queryVars, moreVars>>

\* line 486: name = bluetooth.lookup_name(addr, ...)
ConnLookupName ==
    /\ cpc = "name"
    /\ \E n \in ConnNames : cname' = n
    /\ clog' = Append(clog, Entry("lookup_name", <<>>))
    /\ cpc' = "service"
    /\ UNCHANGED <<caddr, ctries, cport, csock, cout, ccalls>>
    /\ UNCHANGED <<sessionVars, mgrVars, pairVars, inboxVars, queryVars, moreVars>>

\* lines 489-500: one round of the loop, and the raise after the last one.
ConnFindService ==
    /\ cpc = "service"
    /\ \E services \in ServiceLists :
        /\ clog' = Append(clog, Entry("find_service", services))
        /\ ctries' = ctries + 1
        /\ cport' = FirstRfcomm(services)
        /\ IF ~IsNone(FirstRfcomm(services))
           THEN /\ cpc' = "socket"
                /\ UNCHANGED <<cout, ccalls>>
           ELSE IF LoopGoesOn(ctries + 1)
           THEN /\ cpc' = "service"
                /\ UNCHANGED <<cout, ccalls>>
           ELSE ConnReturn("BluetoothError", None)
    /\ UNCHANGED <<caddr, cname, csock>>
    /\ UNCHANGED <<sessionVars, mgrVars, pairVars, inboxVars, queryVars, moreVars>>

\* lines 502-506: the socket is created and connected; OSError becomes
\* BluetoothError, and the socket is left as it is.
ConnSocket ==
    /\ cpc = "socket"
    /\ \E ok \in BOOLEAN :
        /\ clog' = Append(clog, Entry("socket", <<ok>>))
        /\ IF ok
           THEN /\ csock' = "connected"
                /\ cpc' = "register"
                /\ UNCHANGED <<cout, ccalls>>
           ELSE /\ csock' = "created"
                /\ ConnReturn("BluetoothError", None)
    /\ UNCHANGED <<caddr, cname, ctries, cport>>
    /\ UNCHANGED <<sessionVars, mgrVars, pairVars, inboxVars, queryVars, moreVars>>

\* lines 508-518: the session is built, registered under addr and returned.
ConnRegister ==
    /\ cpc = "register"
    /\ sessions' = Append(sessions,
                          NewSession(Val(caddr), Val(cport), cname,
                                     OrElse(cname, Some(Val(caddr)))))
    /\ connections' = CachePut(connections, Val(caddr), Len(sessions) + 1)
    /\ clog' = Append(clog, Entry("register", <<>>))
    /\ ConnReturn("ok", Some(Len(sessions) + 1))
    /\ UNCHANGED <<caddr, cname, ctries, cport, csock>>
    /\ UNCHANGED <<devices_cache, bluez, mlast, mprev, mcalls>>
    /\ UNCHANGED <<sessionVars, pairVars, inboxVars, queryVars, moreVars>>

NextConn ==
    \/ \E device \in SessionArgs : ConnCall(device)
    \/ ConnLink \/ ConnLookupName \/ ConnFindService \/ ConnSocket \/ ConnRegister

ConnSpec == InitManager /\ [][NextConn]_vars

(***************************************************************************)
(* Properties of connect.                                                  *)
(***************************************************************************)
Noted(k) == {i \in 1..Len(clog) : clog[i].k = k}
LinkAnswer(o) == \E i \in Noted("link") : clog[i].arg = <<o>>
HasRfcomm(services) == \E i \in 1..Len(services) : services[i].protocol = "RFCOMM"
ConnDone == cpc = "idle" /\ cout.status # "none"

\* C13 (as claimed): when Device1.Connect() fails with anything but the
\* profile-unavailable failure, connect raises BluetoothError at once: no name
\* or service lookup is made, no socket is opened, no session is registered.
C13_OtherLinkFailureFatal ==
    LinkAnswer("Failed") =>
        /\ cpc = "idle" /\ cout.status = "BluetoothError"
        /\ Noted("lookup_name") \cup Noted("find_service") = {}
        /\ Noted("socket") \cup Noted("register") = {}
        /\ csock = "none"

\* C14: connect makes at most 3 find_service calls, makes none after one
\* that returned an RFCOMM entry, opens a socket only after a lookup that
\* returned one, and raises BluetoothError without a socket when 3 lookups
\* returned none.
C14_ThreeLookups ==
    /\ Cardinality(Noted("find_service")) <= 3
    /\ ctries = Cardinality(Noted("find_service"))
    /\ \A i, j \in Noted("find_service") : i < j => ~HasRfcomm(clog[i].arg)
    /\ cpc = "service" => ctries < 3
    /\ Noted("socket") # {} =>
          \E i \in Noted("find_service") :
              HasRfcomm(clog[i].arg) /\ \A s \in Noted("socket") : i < s
    /\ (ConnDone /\ Cardinality(Noted("find_service")) = 3
           /\ \A i \in Noted("find_service") : ~HasRfcomm(clog[i].arg)) =>
          /\ cout.status = "BluetoothError"
          /\ Noted("socket") = {}
          /\ csock = "none"
          /\ IsNone(cout.session)

\* C14 witness: three lookups returned no RFCOMM entry and connect raised.
C14_Witness ==
    /\ ConnDone /\ cout.status = "BluetoothError"
    /\ Cardinality(Noted("find_service")) = 3
    /\ \A i \in Noted("find_service") : ~HasRfcomm(clog[i].arg)
    /\ csock = "none"

\* The services of the lookup that ended the search.
LastLookup == clog[CHOOSE i \in Noted("find_service") :
                       \A j \in Noted("find_service") : j <= i].arg

\* C15: when connect returns, the table maps the resolved address, which is
\* in upper case, to the session returned; that session has that address,
\* is_connected true and an open socket, its port is the port of the first
\* RFCOMM entry of the lookup that found one, and its connection_id is the
\* looked-up name when that is not empty, else the address.
C15_RegisteredSession ==
    (ConnDone /\ cout.status = "ok") =>
        LET addr == Val(caddr)
            s == sessions[Val(cout.session)]
            first == CHOOSE i \in 1..Len(LastLookup) :
                        /\ LastLookup[i].protocol = "RFCOMM"
                        /\ \A j \in 1..(i - 1) : LastLookup[j].protocol # "RFCOMM"
        IN  /\ addr = Upper(addr)
            /\ CacheGet(connections, addr) = cout.session
            /\ s.address = addr
            /\ s.is_connected /\ s.sock = "open" /\ ~s.stop_event
            /\ s.port = LastLookup[first].port
            /\ s.connection_id = IF ~IsNone(cname) /\ Val(cname) # <<>>
                                 THEN cname ELSE Some(addr)

\* C15 witness: connect returned a session after a profile-unavailable link
\* failure; the name lookup returned nothing, and the port is that of the
\* first of two RFCOMM entries.
C15_Witness ==
    /\ ConnDone /\ cout.status = "ok"
    /\ IsNone(cname)
    /\ Len(LastLookup) = 2 /\ LastLookup[1].protocol = "RFCOMM"
    /\ sessions[Val(cout.session)].port = 1
    /\ LinkAnswer("NotAvailable")

(***************************************************************************)
(* Properties of BluetoothManager.disconnect_all.                          *)
(***************************************************************************)
\* C16 (as claimed): after disconnect_all() has returned or raised, every
\* session that was registered when it was called is torn down and the session
\* table is empty.
C16_AllTornDown ==
    mlast.op = "disconnect_all" =>
        /\ \A a \in DOMAIN mlast.before : TornDown(mlast.before[a])
        /\ connections = <<>>

(***************************************************************************)
(* BluetoothManager's queries: _resolve_device_to_addr, is_enabled,        *)
(* is_paired, is_connected, get_device_info and scan, each call one        *)
(* action.  qlast notes the call, the daemon and the cache it met, and     *)
(* what it returned or raised.                                             *)
(***************************************************************************)
MaxQueryCalls == 2

\* The arguments of the queries: those of the other calls and the addresses
\* as scan() returns them.
QueryArgs == DeviceArgs \cup Addrs

\* Daemon states where one device has as its alias the name of the other.
AliasOnly == [Name |-> None, Alias |-> Some(NameHC)]
Named == [Name |-> Some(NameHC), Alias |-> Some(NameHC)]
QueryBluezStates ==
    BluezStates \cup
    { [up |-> TRUE, devs |-> [a \in Addrs |-> IF a = x THEN Some(AliasOnly)
                                              ELSE Some(Named)]] : x \in Addrs }

Query(o, device, status, value, did, cache0, bz0, bz1) ==
    [op |-> o, device |-> device, status |-> status, value |-> value, did |-> did,
     cache0 |-> cache0, bz0 |-> bz0, bz1 |-> bz1]

QLogged(q) ==
    /\ qprev' = qlast
    /\ qlast' = q
    /\ qcalls' = qcalls + 1

\* lines 96-123 called on their own.
QResolve(device) ==
    /\ qcalls < MaxQueryCalls
    /\ \E r \in ResolveOutcomes(device, devices_cache, bluez) :
        /\ devices_cache' = r.cache
        /\ bluez' = r.bluez
        /\ QLogged(Query("resolve", device, r.status, r.addr, r.did,
                         devices_cache, bluez, r.bluez))
    /\ UNCHANGED <<connections, sessions, mlast, mprev, mcalls>>
    /\ UNCHANGED <<sessionVars, pairVars, inboxVars, connVars, moreVars>>

\* lines 180-184: what _get_adapter() and GetAll answer: the D-Bus library's
\* error, BluetoothError for an adapter that is not on the bus, or the
\* properties with Powered on, off or missing.
AdapterAnswers(bz) ==
    IF ~bz.up THEN {"DBusError"}
    ELSE {"BluetoothError", "DBusError", "on", "off", "no Powered"}

\* lines 176-186: is_enabled().
is_enabled(answer) == [status |-> "ok", value |-> answer = "on"]

QIsEnabled ==
    /\ qcalls < MaxQueryCalls
    /\ \E answer \in AdapterAnswers(bluez) :
        QLogged(Query("is_enabled", <<>>, is_enabled(answer).status,
                      is_enabled(answer).value, <<answer>>,
                      devices_cache, bluez, bluez))
    /\ UNCHANGED <<sessionVars, mgrVars, pairVars, inboxVars, connVars, moreVars>>

\* A lookup that finds no device.
NoPathAndProps(addr, bz) == [status |-> "BluetoothError", props |-> None, raw |-> None]

\* lines 148-158: _get_device_path_and_props on a fresh snapshot: the entry
\* under addr.upper(), with the Address property as the daemon spells it.
get_device_path_and_props(addr, bz) ==
    IF ~bz.up THEN [status |-> "DBusError", props |-> None, raw |-> None]
    ELSE LET hits == {a \in Addrs : ~IsNone(bz.devs[a]) /\ Upper(a) = Upper(addr)}
         IN  IF hits = {}
             THEN [status |-> "BluetoothError", props |-> None, raw |-> None]
             ELSE LET a == CHOOSE x \in hits : TRUE
                  IN  [status |-> "ok", props |-> bz.devs[a], raw |-> Some(a)]

\* BluetoothDeviceInfo as far as the model reads it.
DeviceInfo(address, props, paired, connected) ==
    [address |-> address, name |-> props.Name, alias |-> props.Alias,
     paired |-> paired, connected |-> connected]

\* lines 277-303: get_device_info(device): the resolution, the snapshot, the
\* info built from its properties.  Paired and Connected are the daemon's.
InfoOutcomes(device, cache, bz) ==
    UNION {
        IF r.status # "ok"
        THEN {[status |-> r.status, value |-> None, cache |-> r.cache,
               bluez |-> r.bluez, did |-> r.did]}
        ELSE LET pp == get_device_path_and_props(Val(r.addr), r.bluez)
             IN  IF pp.status # "ok"
                 THEN {[status |-> pp.status, value |-> None, cache |-> r.cache,
                        bluez |-> r.bluez, did |-> r.did]}
                 ELSE {[status |-> "ok",
                        value |-> Some(DeviceInfo(Val(pp.raw), Val(pp.props), p, c)),
                        cache |-> r.cache, bluez |-> r.bluez, did |-> r.did]
                        : p \in BOOLEAN, c \in BOOLEAN}
        : r \in ResolveOutcomes(device, cache, bz) }

QGetInfo(device) ==
    /\ qcalls < MaxQueryCalls
    /\ \E i \in InfoOutcomes(device, devices_cache, bluez) :
        /\ devices_cache' = i.cache
        /\ bluez' = i.bluez
        /\ QLogged(Query("get_device_info", device, i.status, i.value, i.did,
                         devices_cache, bluez, i.bluez))
    /\ UNCHANGED <<connections, sessions, mlast, mprev, mcalls>>
    /\ UNCHANGED <<sessionVars, pairVars, inboxVars, connVars, moreVars>>

\* lines 389-401: is_paired / is_connected: get_device_info(device) outside
\* any try block, then bool() of the field.
Probe(i, field) ==
    IF i.status # "ok" THEN [status |-> i.status, value |-> None]
    ELSE [status |-> "ok", value |-> Some(Val(i.value)[field])]

QProbe(o, field, device) ==
    /\ qcalls < MaxQueryCalls
    /\ \E i \in InfoOutcomes(device, devices_cache, bluez) :
        /\ devices_cache' = i.cache
        /\ bluez' = i.bluez
        /\ QLogged(Query(o, device, Probe(i, field).status, Probe(i, field).value,
                         i.did, devices_cache, bluez, i.bluez))
    /\ UNCHANGED <<connections, sessions, mlast, mprev, mcalls>>
    /\ UNCHANGED <<sessionVars, pairVars, inboxVars, connVars, moreVars>>

QIsPaired(device) == QProbe("is_paired", "paired", device)

QIsConnected(device) == QProbe("is_connected", "connected", device)

\* lines 233-273: the addresses of the devices scan() returns: the keys of
\* the snapshot taken after discovery.
ScanDevices(bz) == {e.addr : e \in find_device_entries(bz)}

\* lines 212-275: scan() called by a client.
QScan ==
    /\ qcalls < MaxQueryCalls
    /\ \E s \in ScanOutcomes(devices_cache, bluez) :
        /\ devices_cache' = s.cache
        /\ bluez' = s.bluez
        /\ QLogged(Query("scan", <<>>, s.status,
                         IF s.status = "ok" THEN Some(ScanDevices(s.bluez)) ELSE None,
                         <<>>, devices_cache, bluez, s.bluez))
    /\ UNCHANGED <<connections, sessions, mlast, mprev, mcalls>>
    /\ UNCHANGED <<sessionVars, pairVars, inboxVars, connVars, moreVars>>

NextQuery ==
    \/ \E device \in QueryArgs : QResolve(device)
    \/ QIsEnabled
    \/ \E device \in QueryArgs : QGetInfo(device)
    \/ \E device \in QueryArgs : QIsPaired(device)
    \/ \E device \in QueryArgs : QIsConnected(device)
    \/ QScan

\* The manager constructed, the daemon in any state.
InitQuerySpec ==
    /\ IdleSession /\ InitPair /\ InitRest
    /\ devices_cache = <<>>
    /\ connections = <<>>
    /\ sessions = <<>>
    /\ bluez \in QueryBluezStates
    /\ mlast = NoCall
    /\ mprev = NoCall
    /\ mcalls = 0

QuerySpec == InitQuerySpec /\ [][NextQuery]_vars

(***************************************************************************)
(* Properties of the queries.                                              *)
(***************************************************************************)
Probes == {"is_enabled", "is_paired", "is_connected"}

\* C21 (as claimed): is_enabled(), is_paired(device) and is_connected(device)
\* never raise, and return False when the query behind them fails.
C21_ProbesNeverRaise ==
    qlast.op \in Probes =>
        /\ qlast.status = "ok"
        /\ qlast.op = "is_enabled" =>
              (qlast.did[1] \in {"BluetoothError", "DBusError"} => qlast.value = FALSE)

WithSeparator(s) == \E i \in 1..Len(s) : s[i] = 58
Asked == Strip(qlast.device)
HintFor(d) == IF d \in DOMAIN qlast.cache0 THEN qlast.cache0[d] ELSE <<>>
NameMatches(bz, d) ==
    {e.addr : e \in {x \in find_device_entries(bz) :
                        ~IsNone(x.props.Name) /\ Val(x.props.Name) # <<>>
                        /\ Lower(Val(x.props.Name)) = Lower(d)}}
AliasMatches(bz, d) ==
    {e.addr : e \in {x \in find_device_entries(bz) :
                        ~IsNone(x.props.Alias) /\ Val(x.props.Alias) # <<>>
                        /\ Lower(Val(x.props.Alias)) = Lower(d)}}
Times(did, x) == Cardinality({i \in 1..Len(did) : did[i] = x})

\* C22: for a name without ':' and without a hint in the cache, the resolution
\* returns a device of the first snapshot whose name matches ignoring case,
\* else one whose alias matches, without scanning; with no match it scans
\* once and searches one more snapshot the same way, and raises BluetoothError
\* when that finds nothing.  No call scans more than once or searches more
\* than two snapshots.
C22_NameResolution ==
    (qlast.op = "resolve" /\ ~WithSeparator(Asked) /\ HintFor(Asked) = <<>>) =>
        LET n0 == NameMatches(qlast.bz0, Asked)
            a0 == AliasMatches(qlast.bz0, Asked)
            n1 == NameMatches(qlast.bz1, Asked)
            a1 == AliasMatches(qlast.bz1, Asked)
        IN  /\ Times(qlast.did, "scan") <= 1
            /\ Times(qlast.did, "snapshot") <= 2
            /\ n0 # {} =>
                  /\ qlast.status = "ok" /\ Val(qlast.value) \in n0
                  /\ qlast.did = <<"cache", "snapshot">>
            /\ (n0 = {} /\ a0 # {}) =>
                  /\ qlast.status = "ok" /\ Val(qlast.value) \in a0
                  /\ qlast.did = <<"cache", "snapshot">>
            /\ (qlast.bz0.up /\ n0 = {} /\ a0 = {}) =>
                  /\ Times(qlast.did, "scan") = 1
                  /\ qlast.status = "ok" =>
                        /\ qlast.did = <<"cache", "snapshot", "scan", "snapshot">>
                        /\ Val(qlast.value) \in (IF n1 # {} THEN n1 ELSE a1)
                  /\ (Times(qlast.did, "snapshot") = 2 /\ n1 = {} /\ a1 = {}) =>
                        qlast.status = "BluetoothError"

\* C22 witness: a name was resolved in a daemon where one device carries it
\* as its name and another one only as its alias.
C22_Witness ==
    /\ qlast.op = "resolve" /\ ~WithSeparator(Asked) /\ HintFor(Asked) = <<>>
    /\ qlast.status = "ok"
    /\ NameMatches(qlast.bz0, Asked) # AliasMatches(qlast.bz0, Asked)
    /\ NameMatches(qlast.bz0, Asked) # {}

\* C23: a string with ':' is resolved to itself, stripped and in upper case,
\* without a look at the cache, a snapshot or a scan, and the cache and the
\* daemon are left as they were; a name the hint cache maps to an address is
\* resolved to that address with no snapshot and no scan, the cache unchanged.
C23_FastPaths ==
    qlast.op = "resolve" =>
        /\ WithSeparator(Asked) =>
              /\ qlast.status = "ok" /\ qlast.value = Some(Upper(Asked))
              /\ qlast.did = <<>>
              /\ devices_cache = qlast.cache0
              /\ qlast.bz1 = qlast.bz0
        /\ (~WithSeparator(Asked) /\ HintFor(Asked) # <<>>) =>
              /\ qlast.status = "ok" /\ qlast.value = Some(HintFor(Asked))
              /\ qlast.did = <<"cache">>
              /\ devices_cache = qlast.cache0
              /\ qlast.bz1 = qlast.bz0

\* C23 witness: a name was resolved from the hint a scan had left.
C23_Witness ==
    /\ qprev.op = "scan" /\ qprev.status = "ok"
    /\ qlast.op = "resolve" /\ ~WithSeparator(Asked) /\ HintFor(Asked) # <<>>
    /\ qlast.status = "ok" /\ qlast.did = <<"cache">>

\* C28: the addresses scan() returns are those of the snapshot it took, none
\* empty, all in upper case; and get_device_info of such an address, called
\* while the daemon is as the scan left it, returns the info of that address
\* with the name and alias the daemon holds, without a scan.
C28_ScanInfoRoundTrip ==
    /\ (qlast.op = "scan" /\ qlast.status = "ok") =>
          /\ \A a \in Val(qlast.value) : a # <<>> /\ a = Upper(a)
          /\ Val(qlast.value) = {Upper(a) : a \in {x \in Addrs : qlast.bz1.devs[x] # None}}
    /\ (qprev.op = "scan" /\ qprev.status = "ok" /\ qlast.op = "get_device_info"
            /\ qlast.device \in Val(qprev.value) /\ qlast.bz0 = qprev.bz1) =>
          /\ qlast.status = "ok"
          /\ Val(qlast.value).address = qlast.device
          /\ Val(qlast.value).name = Val(qlast.bz0.devs[qlast.device]).Name
          /\ Val(qlast.value).alias = Val(qlast.bz0.devs[qlast.device]).Alias
          /\ Times(qlast.did, "scan") = 0

\* C28 witness: a scan returned two devices and get_device_info of one of
\* them returned.
C28_Witness ==
    /\ qprev.op = "scan" /\ qprev.status = "ok"
    /\ Cardinality(Val(qprev.value)) = 2
    /\ qlast.op = "get_device_info" /\ qlast.device \in Val(qprev.value)
    /\ qlast.status = "ok"


(***************************************************************************)
(* The echo buffer and the lock; disconnect; the early return of           *)
(* send_receive_msg.                                                       *)
(***************************************************************************)
\* C26 (as claimed): access to the echo buffer is serialized by a lock: the
\* sender appends to _last_sent only while it holds the lock of the session,
\* the one the listener takes for the inbox.
C26_EchoBufferUnderLock == [][last_sent' # last_sent => lock = "caller"]_vars

\* C27 (as claimed): disconnect never raises, and when it has returned the
\* stop flag is set, the socket is closed and released and is_connected is
\* false.
C27_DisconnectSucceeds ==
    ret.op = "disconnect" =>
        /\ ret.status = "ok"
        /\ stop_event
        /\ sock = "closed"
        /\ ~is_connected

\* C30: send_receive_msg stays in its wait loop only while it has collected
\* nothing: once a message that is no echo has been collected and the inbox
\* holds nothing beyond the watermark the call goes on to return, before the
\* deadline too; with nothing collected it returns at the deadline, not before.
C30_FastPath ==
    /\ pc \in {"sr_loop", "sr_wait", "sr_drain"} => collected = <<>>
    /\ pc = "sr_merge" /\ collected = <<>> => now >= end_time

\* The call leaves the loop with a collected message while time is left.
C30_Witness == pc = "sr_merge" /\ collected # <<>> /\ now < end_time


(***************************************************************************)
(* The echo buffer over many sends: one caller, a peer that sends nothing, *)
(* send_msg called again and again.  esent lists the records handed to     *)
(* send_msg; the program does not read it.                                 *)
(***************************************************************************)
MaxSends == 11

\* The records of this caller: a text and bytes that end in CR LF, with
\* different payloads.
EchoRecords ==
    { MessageRecord(Some(TxtAT), None), MessageRecord(None, Some(BytOK)) }

\* The caller invokes send_msg(r).
EchoCall(r) ==
    /\ pc = "idle"
    /\ Len(esent) < MaxSends
    /\ esent' = Append(esent, r)
    /\ rec' = r
    /\ op' = "send_msg"
    /\ pc' = "send_check"
    /\ payload' = None
    /\ ret' = NoRet
    /\ UNCHANGED <<mgrVars, pairVars, inboxVars, connVars, queryVars, tableVars>>
    /\ UNCHANGED <<sock, stop_event, last_sent, incoming, lock, notified, is_connected,
                   last_used_at, lpc, ldata, timeout, start_index, end_time, collected,
                   opsDone, wire, peerMode, unsolicited, now, hist>>

\* send_msg lines 159-160 with a peer that stays silent.
SendSockQuiet == SendSockTo({<<>>})

NextEcho ==
    \/ \E r \in EchoRecords : EchoCall(r)
    \/ SendCheck
    \/ SendSockQuiet
    \/ SendRemember

InitEchoSpec == IdleSession /\ IdleMgr /\ InitPair /\ InitRest

EchoSpec == InitEchoSpec /\ [][NextEcho]_vars

\* What send_msg transmits for record r (lines 148-152).
PayloadOf(r) ==
    IF ~IsNone(r.send_message) THEN Encode(Val(r.send_message)) ELSE Val(r.send_bytes)

\* The last n entries of q.
LastOf(q, n) == IF Len(q) <= n THEN q ELSE SubSeq(q, Len(q) - n + 1, Len(q))

\* The payloads of the sends made so far, trailing CR/LF stripped, in send order.
SentNormalized == [i \in 1..Len(esent) |-> normalize_bytes(PayloadOf(esent[i]))]

\* C29: the echo buffer never holds more than 10 entries, and between calls
\* it holds the normalized payloads of the most recent min(n, 10) sends, in
\* send order.
C29_EchoBuffer ==
    /\ Len(last_sent) <= 10
    /\ pc = "idle" => last_sent = LastOf(SentNormalized, 10)

\* More than ten sends have been made, and the first payload, which is gone,
\* differs from the last.
C29_Witness ==
    /\ pc = "idle"
    /\ Len(esent) > 10
    /\ ret.status = "ok"
    /\ SentNormalized[1] # SentNormalized[Len(esent)]


(***************************************************************************)
(* The session table under two threads.  BluetoothManager has no lock, so  *)
(* a thread can be scheduled between any two accesses of self._connections *)
(* that another thread makes: each access is one step here.                *)
(***************************************************************************)
MaxTableOps == 3

\* The daemon up, with both devices known to it.
BluezBoth ==
    [up |-> TRUE,
     devs |-> [a \in Addrs |-> Some([Name |-> Some(NameHC), Alias |-> Some(NameHC)])]]

\* Thread t leaves its call.
TDone(t, o, status) ==
    /\ tpc' = [tpc EXCEPT ![t] = "idle"]
    /\ tloc' = [tloc EXCEPT ![t] = NoLocals]
    /\ tout' = [tout EXCEPT ![t] = [op |-> o, status |-> status]]

\* Thread t goes on to `where` with the locals `locals`.
TGoto(t, where, locals) ==
    /\ tpc' = [tpc EXCEPT ![t] = where]
    /\ tloc' = [tloc EXCEPT ![t] = locals]
    /\ UNCHANGED tout

\* connect lines 462-515 for an address: resolution, the link, the service
\* lookups, the socket and the session object.
TConnOpen(t, a) ==
    /\ tpc[t] = "idle" /\ tops < MaxTableOps
    /\ tops' = tops + 1
    /\ LET addr == Upper(Strip(a))
       IN  IF "DBusError" \in LinkOutcomes(bluez, addr)
           THEN /\ TDone(t, "connect", "DBusError")
                /\ UNCHANGED sessions
           ELSE \E conn \in EstablishOutcomes(addr) :
                IF IsNone(conn)
                THEN /\ TDone(t, "connect", "BluetoothError")
                     /\ UNCHANGED sessions
                ELSE /\ sessions' = Append(sessions, Val(conn))
                     /\ TGoto(t, "register",
                              [NoLocals EXCEPT !.addr = Some(addr),
                                               !.conn = Some(Len(sessions) + 1)])
    /\ UNCHANGED <<devices_cache, connections, bluez, mlast, mprev, mcalls, tregd>>
    /\ UNCHANGED <<sessionVars, pairVars, inboxVars, connVars, queryVars, echoVars>>

\* connect lines 517-518: self._connections[addr] = conn
TConnRegister(t) ==
    /\ tpc[t] = "register"
    /\ connections' = CachePut(connections, Val(tloc[t].addr), Val(tloc[t].conn))
    /\ tregd' = tregd \cup {Val(tloc[t].conn)}
    /\ TDone(t, "connect", "ok")
    /\ UNCHANGED <<devices_cache, sessions, bluez, mlast, mprev, mcalls, tops>>
    /\ UNCHANGED <<sessionVars, pairVars, inboxVars, connVars, queryVars, echoVars>>

\* disconnect lines 524-528 for an address: conn = self._connections.get(addr).
\* With no session the call goes to the link-level disconnect, which raises
\* nothing, and returns.
TDiscGet(t, a) ==
    /\ tpc[t] = "idle" /\ tops < MaxTableOps
    /\ tops' = tops + 1
    /\ LET addr == Upper(Strip(a))
           conn == CacheGet(connections, addr)
       IN  IF IsNone(conn)
           THEN TDone(t, "disconnect", "ok")
           ELSE TGoto(t, "close", [NoLocals EXCEPT !.addr = Some(addr), !.conn = conn])
    /\ UNCHANGED <<devices_cache, connections, sessions, bluez, mlast, mprev, mcalls,
                   tregd>>
    /\ UNCHANGED <<sessionVars, pairVars, inboxVars, connVars, queryVars, echoVars>>

\* disconnect line 529: conn.disconnect()
TDiscClose(t) ==
    /\ tpc[t] = "close"
    /\ sessions' = [sessions EXCEPT ![Val(tloc[t].conn)] = SessionDisconnect(@)]
    /\ TGoto(t, "del", tloc[t])
    /\ UNCHANGED <<devices_cache, connections, bluez, mlast, mprev, mcalls, tregd, tops>>
    /\ UNCHANGED <<sessionVars, pairVars, inboxVars, connVars, queryVars, echoVars>>

\* disconnect line 530: del self._connections[addr], a KeyError when the key
\* is gone; lines 532-537 raise nothing.
TDiscDel(t) ==
    /\ tpc[t] = "del"
    /\ IF Val(tloc[t].addr) \in DOMAIN connections
       THEN /\ connections' = DictDel(connections, Val(tloc[t].addr))
            /\ TDone(t, "disconnect", "ok")
       ELSE /\ UNCHANGED connections
            /\ TDone(t, "disconnect", "KeyError")
    /\ UNCHANGED <<devices_cache, sessions, bluez, mlast, mprev, mcalls, tregd, tops>>
    /\ UNCHANGED <<sessionVars, pairVars, inboxVars, connVars, queryVars, echoVars>>

\* active_connections lines 543-544: the iterator over the values of the table;
\* it notes the size of the table.
TListIter(t) ==
    /\ tpc[t] = "idle" /\ tops < MaxTableOps
    /\ tops' = tops + 1
    /\ TGoto(t, "next", [NoLocals EXCEPT !.used = Cardinality(DOMAIN connections)])
    /\ UNCHANGED <<devices_cache, connections, sessions, bluez, mlast, mprev, mcalls,
                   tregd>>
    /\ UNCHANGED <<sessionVars, pairVars, inboxVars, connVars, queryVars, echoVars>>

\* active_connections lines 544-546: one step of the for loop.  The iterator
\* raises RuntimeError when the size of the table is not the one it noted;
\* else it yields a session it has not yielded, or the loop ends.
TListNext(t) ==
    /\ tpc[t] = "next"
    /\ IF Cardinality(DOMAIN connections) # tloc[t].used
       THEN TDone(t, "active_connections", "RuntimeError")
       ELSE IF DOMAIN connections \ tloc[t].seen = {}
       THEN TDone(t, "active_connections", "ok")
       ELSE \E a \in DOMAIN connections \ tloc[t].seen :
                TGoto(t, "next", [tloc[t] EXCEPT !.seen = @ \cup {a}])
    /\ UNCHANGED <<devices_cache, connections, sessions, bluez, mlast, mprev, mcalls,
                   tregd, tops>>
    /\ UNCHANGED <<sessionVars, pairVars, inboxVars, connVars, queryVars, echoVars>>

\* disconnect_all line 552: addrs = list(self._connections.keys())
TAllSnap(t) ==
    /\ tpc[t] = "idle" /\ tops < MaxTableOps
    /\ tops' = tops + 1
    /\ TGoto(t, "all_next", [NoLocals EXCEPT !.todo = DOMAIN connections])
    /\ UNCHANGED <<devices_cache, connections, sessions, bluez, mlast, mprev, mcalls,
                   tregd>>
    /\ UNCHANGED <<sessionVars, pairVars, inboxVars, connVars, queryVars, echoVars>>

\* disconnect_all lines 553-555: the next address of the list and
\* conn = self._connections.get(addr); past the last address, on to line 557.
TAllNext(t) ==
    /\ tpc[t] = "all_next"
    /\ IF tloc[t].todo = {}
       THEN TGoto(t, "clear", tloc[t])
       ELSE \E a \in tloc[t].todo :
            LET conn == CacheGet(connections, a)
            IN  TGoto(t, IF IsNone(conn) THEN "all_next" ELSE "all_close",
                      [tloc[t] EXCEPT !.todo = @ \ {a}, !.conn = conn])
    /\ UNCHANGED <<devices_cache, connections, sessions, bluez, mlast, mprev, mcalls,
                   tregd, tops>>
    /\ UNCHANGED <<sessionVars, pairVars, inboxVars, connVars, queryVars, echoVars>>

\* disconnect_all line 556: conn.disconnect()
TAllClose(t) ==
    /\ tpc[t] = "all_close"
    /\ sessions' = [sessions EXCEPT ![Val(tloc[t].conn)] = SessionDisconnect(@)]
    /\ TGoto(t, "all_next", [tloc[t] EXCEPT !.conn = None])
    /\ UNCHANGED <<devices_cache, connections, bluez, mlast, mprev, mcalls, tregd, tops>>
    /\ UNCHANGED <<sessionVars, pairVars, inboxVars, connVars, queryVars, echoVars>>

\* disconnect_all line 557: self._connections.clear()
TAllClear(t) ==
    /\ tpc[t] = "clear"
    /\ connections' = <<>>
    /\ TDone(t, "disconnect_all", "ok")
    /\ UNCHANGED <<devices_cache, sessions, bluez, mlast, mprev, mcalls, tregd, tops>>
    /\ UNCHANGED <<sessionVars, pairVars, inboxVars, connVars, queryVars, echoVars>>

NextTable ==
    \E t \in Threads :
        \/ \E a \in Addrs : TConnOpen(t, a)
        \/ TConnRegister(t)
        \/ \E a \in Addrs : TDiscGet(t, a)
        \/ TDiscClose(t)
        \/ TDiscDel(t)
        \/ TListIter(t)
        \/ TListNext(t)
        \/ TAllSnap(t)
        \/ TAllNext(t)
        \/ TAllClose(t)
        \/ TAllClear(t)

\* The manager constructed, the daemon down or up with both devices.
InitTableSpec ==
    /\ IdleSession /\ InitPair /\ InitRest
    /\ devices_cache = <<>>
    /\ connections = <<>>
    /\ sessions = <<>>
    /\ bluez \in {BluezDown, BluezBoth}
    /\ mlast = NoCall
    /\ mprev = NoCall
    /\ mcalls = 0

TableSpec == InitTableSpec /\ [][NextTable]_vars

\* C25 (as claimed): under any interleaving of connect, disconnect,
\* disconnect_all and active_connections, every session that was put in the
\* table is still in it or has been torn down, and no call fails because
\* the table changed under it.
C25_TableUnderMutex ==
    /\ \A i \in tregd : i \in Registered(connections) \/ sessions[i].stop_event
    /\ \A t \in Threads : tout[t].status \notin {"KeyError", "RuntimeError"}


\* C24 (as claimed): pair returns or fails with one of the typed errors,
\* BluetoothError or BluetoothAuthenticationError; when the pairing times out,
\* the shell ends or the adapter cannot be reached, no other exception leaves
\* the call.
C24_TypedErrorsOnly ==
    PairDone => pout.status \in {"ok", "BluetoothError", "BluetoothAuthenticationError"}


(***************************************************************************)
(* The echo filter of send_receive_msg.                                    *)
(***************************************************************************)
\* Entry c carries the payload of record r, trailing CR/LF aside, as bytes or
\* as text.
EchoOf(r, c) ==
    \/ /\ ~IsNone(r.send_bytes)
       /\ normalize_bytes(Val(r.send_bytes)) = normalize_bytes(Val(c.received_bytes))
    \/ /\ ~IsNone(r.send_message)
       /\ normalize_text(Val(r.send_message)) = normalize_text(Val(c.received_message))

NonEchoesOf(r, q) == SelectSeq(q, LAMBDA c : ~EchoOf(r, c))

\* C31: send_receive_msg never returns an echo of its record: nothing it has
\* collected carries the payload of the record, the returned bytes are those
\* of the entries it took out that are no echo, a drain leaves nothing beyond
\* the watermark in the inbox, echoes included, and the call leaves its loop
\* before the deadline only with a collected message, never on an echo alone.
C31_NoEchoReturned ==
    /\ [](SRActive => \A i \in 1..Len(collected) : ~EchoOf(rec, collected[i]))
    /\ [](SRReturned =>
            Returned.received_bytes =
                Some(Concat(BytesOf(NonEchoesOf(Returned, hist.removed)))))
    /\ [](pc = "sr_merge" /\ now < end_time => collected # <<>>)
    /\ [][pc = "sr_drain" /\ pc' # "sr_drain" => Len(incoming') <= start_index]_vars

\* A call returned after it took an echo of its record out of the inbox.
C31_Witness ==
    /\ SRReturned
    /\ \E i \in 1..Len(hist.removed) :
          EchoOf(Returned, hist.removed[i]) /\ hist.removed[i].origin = "echo"


(***************************************************************************)
(* The end of the listener thread.                                         *)
(***************************************************************************)
\* A peer that answers each payload, one that transmits on its own, or a link
\* that breaks.
\* Every thread of the session is scheduled while it can run, and time passes.
InitListenerSpec == InitSessionSpec /\ peerMode \in {"ok", "chatty", "failing"}

FairListenerSpec ==
    InitListenerSpec /\ [][NextSession]_vars
    /\ WF_vars(ListenerStep) /\ WF_vars(SRStep) /\ WF_vars(Tick)

ListenerEnded == lpc \in {"exit", "dead"}

\* C32: the listener tests the stop flag at the top of every iteration, so
\* once disconnect has set it the listener thread ends, and from then on
\* nothing is appended to the inbox.
C32_ListenerStops ==
    /\ stop_event ~> ListenerEnded
    /\ [][stop_event /\ lpc = "read" /\ lpc' # "read" => lpc' = "exit"]_vars
    /\ [][ListenerEnded => ListenerEnded' /\ Len(incoming') <= Len(incoming)]_vars

\* disconnect was called while the listener held a chunk it had read; the
\* listener has appended it and ended.
C32_Witness ==
    /\ ret.op = "disconnect"
    /\ lpc = "exit"
    /\ incoming # <<>>


(***************************************************************************)
(* The sessions and the table.                                             *)
(***************************************************************************)
\* Session i has its socket, or its listener has not been told to stop.
Live(i) == sessions[i].sock = "open" \/ ~sessions[i].stop_event

\* C33 (as claimed): every session whose socket is open or whose listener
\* runs is the session the table holds under its address; connect on an
\* address that has a session does not leave that session open and out of
\* the table.
C33_OneLiveSessionPerAddress ==
    \A i \in 1..Len(sessions) :
        Live(i) => CacheGet(connections, sessions[i].address) = Some(i)


(***************************************************************************)
(* send_receive_msg next to other consumers of the inbox.                  *)
(***************************************************************************)
\* Caller c has returned from send_receive_msg.
IbReturned(c) == ipc[c] = "idle" /\ ~IsNone(iwin[c].sent)

\* Entry e is no echo, was appended after the send of caller c, and was in
\* reach of a loop test of c that found the deadline not reached.
InWindow(c, e) == ~e.echo /\ e.n > Val(iwin[c].sent) /\ e.n <= iwin[c].alive

\* C34 (as claimed): a message that is no echo, appended after the send and
\* before the deadline, which no caller has taken out of the inbox, is returned
\* by send_receive_msg, also when another thread called receive_msg in between:
\* none is left in the inbox when the call has returned.
C34_NoMissedResponse ==
    \A c \in Callers :
        IbReturned(c) => \A k \in 1..Len(ibox) : ~InWindow(c, ibox[k])


\* C35 (as claimed): every fragment merged into the record send_receive_msg
\* returns was appended to the inbox after the payload was written to the
\* socket: a message the listener appended between the watermark and the
\* write is not among the fragments of the returned record.
C35_OnlyAfterSend ==
    SRReturned =>
        \A i \in 1..Len(hist.arrived) :
            ~hist.arrived[i].sent =>
                \A k \in 1..Len(NonEchoesOf(Returned, hist.removed)) :
                    NonEchoesOf(Returned, hist.removed)[k] # hist.arrived[i].e


(***************************************************************************)
(* The listener's echo filter over many sends: one caller that sends again *)
(* and again, the listener, and a peer that transmits a few chunks on its  *)
(* own.  The clock shows the number of calls made.                         *)
(***************************************************************************)
MaxChunks == 1

\* What the peer transmits: the two payloads of the caller, with CR LF.
PeerChunks == {BytATCRLF, BytOK}

\* The caller invokes send_msg(r); a unit of time has passed since its last
\* call.
FilterCall(r) ==
    /\ pc = "idle"
    /\ Len(esent) < MaxSends
    /\ esent' = Append(esent, r)
    /\ now' = now + 1
    /\ rec' = r
    /\ op' = "send_msg"
    /\ pc' = "send_check"
    /\ payload' = None
    /\ ret' = NoRet
    /\ UNCHANGED <<mgrVars, pairVars, inboxVars, connVars, queryVars, tableVars>>
    /\ UNCHANGED <<sock, stop_event, last_sent, incoming, lock, notified, is_connected,
                   last_used_at, lpc, ldata, timeout, start_index, end_time, collected,
                   opsDone, wire, peerMode, unsolicited, hist>>

\* The peer transmits a chunk; the listener has read what was sent before.
FilterPeer ==
    /\ unsolicited < MaxChunks
    /\ wire = <<>>
    /\ \E d \in PeerChunks : wire' = <<Chunk(d, "unsol")>>
    /\ unsolicited' = unsolicited + 1
    /\ UNCHANGED <<mgrVars, pairVars, restVars>>
    /\ UNCHANGED <<sock, stop_event, last_sent, incoming, lock, notified, is_connected,
                   last_used_at, lpc, ldata, pc, op, rec, payload, timeout, start_index,
                   end_time, collected, ret, opsDone, peerMode, now, hist>>

NextFilter ==
    \/ \E r \in EchoRecords : FilterCall(r)
    \/ SendCheck
    \/ SendSockQuiet
    \/ SendRemember
    \/ FilterPeer
    \/ ListenRead
    \/ ListenAppend

InitFilterSpec == IdleSession /\ IdleMgr /\ InitPair /\ InitRest

FilterSpec == InitFilterSpec /\ [][NextFilter]_vars

\* The listener takes a chunk off the socket.
ChunkRead == wire # <<>> /\ wire' = Tail(wire)

\* The chunk the listener is about to read carries payload p, CR/LF aside.
Buffered(p) == \E i \in 1..Len(last_sent) : last_sent[i] = p

\* All of q but its last entry.
Front(q) == IF q = <<>> THEN q ELSE SubSeq(q, 1, Len(q) - 1)

\* C36: the listener discards a chunk exactly when its normalized bytes are
\* in the echo buffer at that moment, and the match leaves the buffer as it
\* is; the buffer holds the normalized payloads of the last ten sends and
\* nothing else, so that a payload evicted or never sent discards nothing.
C36_ListenerFilter ==
    /\ [][ChunkRead =>
            /\ (lpc' = "read") <=> Buffered(normalize_bytes(Head(wire).data))
            /\ (lpc' = "append") <=> ~Buffered(normalize_bytes(Head(wire).data))
            /\ last_sent' = last_sent]_vars
    /\ [](last_sent \in {LastOf(SentNormalized, 10), LastOf(Front(SentNormalized), 10)})

\* After eleven sends the peer transmitted the payload of the first send,
\* which no later send carried: the listener kept the chunk.
C36_Witness ==
    /\ Len(esent) > 10
    /\ \A j \in 2..Len(esent) : SentNormalized[j] # SentNormalized[1]
    /\ \E k \in 1..Len(incoming) :
          /\ normalize_bytes(Val(incoming[k].received_bytes)) = SentNormalized[1]
          /\ incoming[k].received_at = Some(11)


\* C37 (as claimed): when pair(device, pin, trust=True) with a PIN returns
\* after a successful shell exchange, a trust request has been made on the
\* device, as on the path without PIN.
C37_TrustAfterPinPairing ==
    (PairDone /\ pout.status = "ok" /\ pargs.trust /\ Truthy(pargs.pin)) =>
        /\ trustReq
        /\ Cardinality(Positions("trust")) = 1


\* C38 (as claimed): when connect(device) raises, no session was built or
\* registered by the call, and no socket the call created is left open.
C38_FailedConnectLeavesNoTrace ==
    (ConnDone /\ cout.status # "ok") =>
        /\ Noted("register") = {}
        /\ IsNone(cout.session)
        /\ csock = "none"


(***************************************************************************)
(* The manager and the callers that hold the sessions connect() returned.  *)
(***************************************************************************)
\* BluetoothConnection.disconnect (lines 237-248) called on the handle of
\* session i, not through the manager.
HandleDisconnect(i) ==
    /\ \E raises \in CloseRaises(sessions[i]) :
          sessions' = [sessions EXCEPT
                         ![i] = IF raises THEN SessionCloseFails(@)
                                ELSE SessionDisconnect(@)]
    /\ UNCHANGED <<devices_cache, connections, bluez, mlast, mprev, mcalls>>
    /\ UNCHANGED <<sessionVars, pairVars, restVars>>

NextHandle ==
    \/ \E device \in SessionArgs : MgrConnect(device)
    \/ \E device \in SessionArgs : MgrDisconnect(device)
    \/ MgrDisconnectAll
    \/ \E i \in 1..Len(sessions) : HandleDisconnect(i)

HandleSpec == InitManager /\ [][NextHandle]_vars

\* lines 539-546: active_connections(), the info of every session in the
\* table.
active_connections == {sessions[i] : i \in Registered(connections)}

\* C39 (as claimed): every info active_connections() returns has is_connected
\* true and belongs to a session whose socket has not been closed.
C39_TableHoldsOpenSessions ==
    \A info \in active_connections : info.is_connected /\ info.sock = "open"


\* C40 (as claimed): the info of every session connect() created has
\* created_at set to a timestamp, the moment of the session's construction.
C40_CreatedAtIsTimestamp ==
    \A i \in 1..Len(sessions) :
        sessions[i].created_at \in {Timestamp(t) : t \in 0..MaxTime}

=============================================================================
